---- MODULE Spec2Model ----
(***************************************************************************)
(* Model of the resumable batch-extraction pipeline of auto_runner.py:     *)
(* selector parsing, the interactive selection planner, process_folder    *)
(* and the run loop of main.                                               *)
(*                                                                         *)
(* Strings are sequences of one-character strings, so that strip, upper,   *)
(* replace, split, int() and Path.stem are computed as Python computes     *)
(* them.                                                                   *)
(***************************************************************************)
EXTENDS Integers, Sequences, FiniteSets, TLC

VARIABLES
    \* ---- parse_selection called on its own (specification SpecSel)
    selection,      \* argument `selection`
    max_num,        \* argument `max_num`
    sel_pc,         \* "call" before it ran, "done" after
    sel_result,     \* the returned list or the raised error
    \* ---- the files
    pdf_dir,        \* PDF_DIR: folder name -> set of file names in that folder
    json_files,     \* JSON_DIR: the artifacts that exist, path -> content
    folder_csv,     \* CSV_DIR/<folder>.csv for each folder: [exists, rows]
    all_csv,        \* CSV_DIR/_all_papers.csv: [exists, rows]
    error_log,      \* ERROR_LOG: its lines
    \* ---- main
    pc,             \* the statement the program is at
    folders,        \* main: `folders`, the list returned by scan_folders
    mode,           \* main: `mode`
    selected_indices, \* main: `selected_indices`
    overwrite,      \* main: `overwrite`
    ui,             \* locals of get_user_choice / get_folder_selection
    loop,           \* main: position in selected_indices, total_stats, global_index
    pf,             \* the frame of the running process_folder call
    \* ---- main, before the scan
    prompt_file,    \* PROMPT_FILE: whether it exists
    theme_file,     \* THEME_FILE: [exists, content]
    pdf_dir_exists, \* whether PDF_DIR exists
    root_files,     \* the regular files directly under PDF_DIR
    root_pdfs,      \* main: `root_pdfs`, the second value scan_folders returns
    themes,         \* the list parse_theme_buckets returned
    \* ---- scenario_rescoring.py
    score,          \* score_to_level: the argument, as the literal that denotes it
    level,          \* score_to_level: the returned level
    paper,          \* calculate_scenario_score: the five scores of `paper`, as literals
    weights,        \* calculate_scenario_score: `weights`, as literals
    scenario_score, \* calculate_scenario_score: the returned ScenarioScore
    p0_csv,         \* P0_CSV_PATH: [exists, rows]
    config,         \* WEIGHTS_CONFIG_PATH: [exists, scenarios], the scenarios in file order
    papers,         \* main: `papers`
    warnings,       \* the rows load_p0_csv printed a warning for
    comparison,     \* the comparison table: [exists, rows]
    rankings,       \* the ranking tables, scenario name -> [exists, header, rows]
    \* ---- rename_pdfs.py (specification SpecRename)
    inbox,          \* BASE_DIR: folder name -> (file name -> modification time)
    rename_counts,  \* what the calls of rename_pdfs_in_folder returned, in order
    \* ---- observation
    run,            \* number of the run (rows and artifacts record who wrote them)
    trace           \* what the run did so far, in order

selVars == <<selection, max_num, sel_pc, sel_result>>

fileVars == <<pdf_dir, json_files, folder_csv, all_csv, error_log>>

planVars == <<mode, selected_indices, overwrite, ui>>

mainVars == <<pc, folders, mode, selected_indices, overwrite, ui, loop, pf, run, trace>>

startVars == <<prompt_file, theme_file, pdf_dir_exists, root_files, root_pdfs, themes>>

levelVars == <<score, level>>

calcVars == <<paper, weights, scenario_score>>

rescoreVars == <<p0_csv, config, papers, warnings, comparison, rankings>>

scoringVars == <<levelVars, calcVars, rescoreVars>>

renameVars == <<inbox, rename_counts>>

vars == <<selection, max_num, sel_pc, sel_result,
          pdf_dir, json_files, folder_csv, all_csv, error_log,
          pc, folders, mode, selected_indices, overwrite, ui, loop, pf, run, trace,
          prompt_file, theme_file, pdf_dir_exists, root_files, root_pdfs, themes,
          score, level, paper, weights, scenario_score,
          p0_csv, config, papers, warnings, comparison, rankings,
          inbox, rename_counts>>

-----------------------------------------------------------------------------
(* Bounds *)

MaxSelLen == 4      \* longest enumerated selector string
MaxNum == 2         \* largest enumerated max_num (number of listed folders)
MaxStart == 2       \* largest global_index_start of a direct process_folder call
MaxShortRows == 2   \* longest P0 table enumerated over every kind of row
MaxRankRows == 12   \* longest P0 table ranked
MaxThemeLen == 5    \* longest enumerated theme file, in characters
MaxScore == 10      \* largest enumerated score given to score_to_level
MaxFiles == 3       \* most files in the folder that is renumbered
MaxMtime == 2       \* latest enumerated modification time

-----------------------------------------------------------------------------
(* Python string primitives *)

Digits == {"0", "1", "2", "3", "4", "5", "6", "7", "8", "9"}

\* value of one decimal digit, as int() reads it
DigitVal(c) ==
    CASE c = "0" -> 0 [] c = "1" -> 1 [] c = "2" -> 2 [] c = "3" -> 3
      [] c = "4" -> 4 [] c = "5" -> 5 [] c = "6" -> 6 [] c = "7" -> 7
      [] c = "8" -> 8 [] c = "9" -> 9

\* the characters str.strip() and int() treat as white space
WhiteSpace == {" ", "\t", "\n"}

\* str.upper() on one character
UpperChar(c) ==
    CASE c = "a" -> "A" [] c = "b" -> "B" [] c = "d" -> "D" [] c = "e" -> "E"
      [] c = "f" -> "F" [] c = "n" -> "N" [] c = "o" -> "O" [] c = "p" -> "P"
      [] c = "q" -> "Q" [] c = "r" -> "R" [] c = "s" -> "S" [] c = "x" -> "X"
      [] c = "y" -> "Y"
      [] OTHER -> c

\* str.lower() on one character
LowerChar(c) ==
    CASE c = "A" -> "a" [] c = "B" -> "b" [] c = "D" -> "d" [] c = "E" -> "e"
      [] c = "F" -> "f" [] c = "N" -> "n" [] c = "O" -> "o" [] c = "P" -> "p"
      [] c = "Q" -> "q" [] c = "R" -> "r" [] c = "S" -> "s" [] c = "X" -> "x"
      [] c = "Y" -> "y"
      [] OTHER -> c

Upper(s) == [i \in 1..Len(s) |-> UpperChar(s[i])]

Lower(s) == [i \in 1..Len(s) |-> LowerChar(s[i])]

\* str.strip(): drop leading and trailing white space
Strip(s) ==
    LET keep == {i \in 1..Len(s) : s[i] \notin WhiteSpace}
    IN  IF keep = {} THEN << >>
        ELSE LET lo == CHOOSE i \in keep : \A j \in keep : i <= j
                 hi == CHOOSE i \in keep : \A j \in keep : j <= i
             IN  SubSeq(s, lo, hi)

\* str.replace(c, ""): delete every occurrence of the character c
RemoveChar(s, c) == SelectSeq(s, LAMBDA x : x # c)

\* str.split(sep) for a one-character separator: always at least one piece
RECURSIVE Split(_, _)
Split(s, sep) ==
    IF \A i \in 1..Len(s) : s[i] # sep THEN <<s>>
    ELSE LET k == CHOOSE i \in 1..Len(s) :
                      s[i] = sep /\ \A j \in 1..(i - 1) : s[j] # sep
         IN  <<SubSeq(s, 1, k - 1)>> \o Split(SubSeq(s, k + 1, Len(s)), sep)

\* s.startswith(p)
StartsWith(s, p) == Len(s) >= Len(p) /\ SubSeq(s, 1, Len(p)) = p

\* s.endswith(p)
EndsWith(s, p) == Len(s) >= Len(p) /\ SubSeq(s, Len(s) - Len(p) + 1, Len(s)) = p

\* the decimal value of a sequence of digits (underscores already removed)
RECURSIVE DecimalValue(_)
DecimalValue(ds) ==
    IF ds = << >> THEN 0
    ELSE 10 * DecimalValue(SubSeq(ds, 1, Len(ds) - 1)) + DigitVal(ds[Len(ds)])

\* int(s): white space around the literal is ignored, one sign is allowed,
\* single underscores may separate digits; anything else raises ValueError.
PyInt(s) ==
    LET t    == Strip(s)
        sign == IF t # << >> /\ t[1] \in {"+", "-"} THEN t[1] ELSE ""
        body == IF sign = "" THEN t ELSE Tail(t)
        wellFormed ==
            /\ body # << >>
            /\ \A i \in 1..Len(body) : body[i] \in Digits \cup {"_"}
            /\ body[1] # "_"
            /\ body[Len(body)] # "_"
            /\ \A i \in 1..(Len(body) - 1) : ~(body[i] = "_" /\ body[i + 1] = "_")
        mag == DecimalValue(RemoveChar(body, "_"))
    IN  IF wellFormed
        THEN [ok |-> TRUE, val |-> IF sign = "-" THEN 0 - mag ELSE mag]
        ELSE [ok |-> FALSE, val |-> 0]

\* str(n) for a natural number
RECURSIVE IntToStr(_)
IntToStr(n) ==
    LET d == CHOOSE c \in Digits : DigitVal(c) = n % 10
    IN  IF n < 10 THEN <<d>> ELSE IntToStr(n \div 10) \o <<d>>

\* sorted(list(S)) for a set of integers
RECURSIVE SortedList(_)
SortedList(S) ==
    IF S = {} THEN << >>
    ELSE LET m == CHOOSE x \in S : \A y \in S : x <= y
         IN  <<m>> \o SortedList(S \ {m})

-----------------------------------------------------------------------------
(* parse_selection *)

\* range(start, end + 1): the 1-based positions taken for 0-based indices
RangeIndicesOffByOne(start, end) == start..end

\* range(start - 1, end)
RangeIndices(start, end) == (start - 1)..(end - 1)

\* the branch for a part containing a hyphen: the indices it adds, or the raise
ParseRangePart(part, maxNum) ==
    LET pieces == Split(part, "-")
        a == PyInt(pieces[1])
        b == PyInt(pieces[2])
    IN  IF Len(pieces) # 2 THEN [ok |-> FALSE]
        ELSE IF ~a.ok \/ ~b.ok THEN [ok |-> FALSE]
        ELSE IF a.val < 1 \/ b.val > maxNum \/ a.val > b.val THEN [ok |-> FALSE]
        ELSE [ok |-> TRUE, add |-> RangeIndices(a.val, b.val)]

\* the branch for a part without a hyphen
ParseSinglePart(part, maxNum) ==
    LET n == PyInt(part)
    IN  IF ~n.ok THEN [ok |-> FALSE]
        ELSE IF n.val < 1 \/ n.val > maxNum THEN [ok |-> FALSE]
        ELSE [ok |-> TRUE, add |-> {n.val - 1}]

\* the loop over the parts: empty parts are skipped, the first part that
\* fails raises ValueError with that part in the message
RECURSIVE ParseParts(_, _, _)
ParseParts(parts, maxNum, indices) ==
    IF parts = << >> THEN [ok |-> TRUE, indices |-> SortedList(indices)]
    ELSE LET part == Head(parts)
             isRange == \E i \in 1..Len(part) : part[i] = "-"
             r == IF isRange THEN ParseRangePart(part, maxNum)
                             ELSE ParseSinglePart(part, maxNum)
         IN  IF part = << >> THEN ParseParts(Tail(parts), maxNum, indices)
             ELSE IF ~r.ok
                  THEN [ok |-> FALSE, token |-> part,
                        kind |-> IF isRange THEN "range" ELSE "index"]
                  ELSE ParseParts(Tail(parts), maxNum, indices \cup r.add)

parse_selection(sel, maxNum) ==
    ParseParts(Split(RemoveChar(sel, " "), ","), maxNum, {})

\* every string over the given characters of length at most n
RECURSIVE StringsUpTo(_, _)
StringsUpTo(chars, n) ==
    IF n = 0 THEN {<< >>}
    ELSE LET shorter == StringsUpTo(chars, n - 1)
         IN  shorter \cup {Append(s, c) : s \in {t \in shorter : Len(t) = n - 1}, c \in chars}

-----------------------------------------------------------------------------
(* Python float: IEEE 754 binary64 with round-to-nearest-even.              *)
(* A natural number of any size is a sequence of limbs, least significant  *)
(* first, without leading zero limbs; a float is sign * m * 2^e with m of  *)
(* at most 53 bits (subnormals, infinities and NaN are not modelled).     *)

LimbBase == 16384

Pow2Small(k) == CASE k = 0 -> 1 [] k = 1 -> 2 [] k = 2 -> 4 [] k = 3 -> 8
                  [] k = 4 -> 16 [] k = 5 -> 32 [] k = 6 -> 64 [] k = 7 -> 128
                  [] k = 8 -> 256 [] k = 9 -> 512 [] k = 10 -> 1024
                  [] k = 11 -> 2048 [] k = 12 -> 4096 [] k = 13 -> 8192
                  [] k = 14 -> 16384

RECURSIVE BigNorm(_)
BigNorm(a) ==
    IF a = << >> THEN << >>
    ELSE IF a[Len(a)] = 0 THEN BigNorm(SubSeq(a, 1, Len(a) - 1))
    ELSE a

LimbAt(a, i) == IF i <= Len(a) THEN a[i] ELSE 0

RECURSIVE BigFromInt(_)
BigFromInt(n) ==
    IF n = 0 THEN << >> ELSE <<n % LimbBase>> \o BigFromInt(n \div LimbBase)

RECURSIVE BigToInt(_)
BigToInt(a) ==
    IF a = << >> THEN 0 ELSE a[1] + LimbBase * BigToInt(Tail(a))

RECURSIVE BigAddFrom(_, _, _, _)
BigAddFrom(a, b, i, carry) ==
    IF i > Len(a) /\ i > Len(b)
    THEN IF carry = 0 THEN << >> ELSE <<carry>>
    ELSE LET t == LimbAt(a, i) + LimbAt(b, i) + carry
         IN  <<t % LimbBase>> \o BigAddFrom(a, b, i + 1, t \div LimbBase)

BigAdd(a, b) == BigAddFrom(a, b, 1, 0)

\* a - b for a >= b
RECURSIVE BigSubFrom(_, _, _, _)
BigSubFrom(a, b, i, borrow) ==
    IF i > Len(a) THEN << >>
    ELSE LET t == a[i] - LimbAt(b, i) - borrow
         IN  IF t < 0 THEN <<t + LimbBase>> \o BigSubFrom(a, b, i + 1, 1)
             ELSE <<t>> \o BigSubFrom(a, b, i + 1, 0)

BigSub(a, b) == BigNorm(BigSubFrom(a, b, 1, 0))

\* -1, 0 or 1 as a < b, a = b or a > b
BigCmp(a, b) ==
    IF Len(a) # Len(b) THEN (IF Len(a) < Len(b) THEN -1 ELSE 1)
    ELSE LET diff == {i \in 1..Len(a) : a[i] # b[i]}
             top == CHOOSE i \in diff : \A j \in diff : j <= i
         IN  IF diff = {} THEN 0 ELSE IF a[top] < b[top] THEN -1 ELSE 1

\* a * d for 0 <= d <= LimbBase
RECURSIVE BigMulSmallFrom(_, _, _, _)
BigMulSmallFrom(a, d, i, carry) ==
    IF i > Len(a) THEN BigFromInt(carry)
    ELSE LET t == a[i] * d + carry
         IN  <<t % LimbBase>> \o BigMulSmallFrom(a, d, i + 1, t \div LimbBase)

BigMulSmall(a, d) == BigNorm(BigMulSmallFrom(a, d, 1, 0))

\* a * LimbBase^n
BigShiftLimbs(a, n) == IF a = << >> THEN << >> ELSE [i \in 1..n |-> 0] \o a

RECURSIVE BigMulFrom(_, _, _)
BigMulFrom(a, b, j) ==
    IF j > Len(b) THEN << >>
    ELSE BigAdd(BigShiftLimbs(BigMulSmall(a, b[j]), j - 1), BigMulFrom(a, b, j + 1))

BigMul(a, b) == BigMulFrom(a, b, 1)

\* a * 2^k
BigShiftLeft(a, k) == BigShiftLimbs(BigMulSmall(a, Pow2Small(k % 14)), k \div 14)

\* quotient and remainder of a by d, for 0 < d <= LimbBase
RECURSIVE BigDivSmallFrom(_, _, _, _)
BigDivSmallFrom(a, d, i, rem) ==
    IF i = 0 THEN [q |-> << >>, r |-> rem]
    ELSE LET t == rem * LimbBase + a[i]
             rest == BigDivSmallFrom(a, d, i - 1, t % d)
         IN  [q |-> Append(rest.q, t \div d), r |-> rest.r]

BigDivSmall(a, d) ==
    LET res == BigDivSmallFrom(a, d, Len(a), 0)
    IN  [q |-> BigNorm(res.q), r |-> res.r]

\* floor(a / 2^k)
BigShiftRight(a, k) ==
    LET dropped == IF k \div 14 >= Len(a) THEN << >>
                   ELSE SubSeq(a, k \div 14 + 1, Len(a))
    IN  BigDivSmall(dropped, Pow2Small(k % 14)).q

RECURSIVE BitLenSmall(_)
BitLenSmall(n) == IF n = 0 THEN 0 ELSE 1 + BitLenSmall(n \div 2)

\* number of bits of a
BigBitLen(a) == IF a = << >> THEN 0 ELSE 14 * (Len(a) - 1) + BitLenSmall(a[Len(a)])

BigIsOdd(a) == a # << >> /\ a[1] % 2 = 1

\* floor(a / 2^k) rounded to nearest, ties to even; inexact tells that a
\* itself stands for a value slightly above a (a remainder was cut before)
BigRoundShift(a, k, inexact) ==
    IF k <= 0 THEN a
    ELSE LET q == BigShiftRight(a, k)
             r == BigSub(a, BigShiftLeft(q, k))
             half == BigShiftLeft(<<1>>, k - 1)
             c == BigCmp(r, half)
             up == c > 0 \/ (c = 0 /\ (inexact \/ BigIsOdd(q)))
         IN  IF up THEN BigAdd(q, <<1>>) ELSE q

FloatZero == [s |-> 1, m |-> << >>, e |-> 0]

RECURSIVE TrailingZeroBits(_)
TrailingZeroBits(n) == IF n % 2 = 1 THEN 0 ELSE 1 + TrailingZeroBits(n \div 2)

\* the one record that stands for sign * m * 2^e, m > 0: the one with m odd
FloatCanon(sign, m, e) ==
    LET nonzero == {i \in 1..Len(m) : m[i] # 0}
        low == CHOOSE i \in nonzero : \A j \in nonzero : i <= j
        bits == 14 * (low - 1) + TrailingZeroBits(m[low])
    IN  [s |-> sign, m |-> BigShiftRight(m, bits), e |-> e + bits]

\* the float nearest to sign * m * 2^e (plus a little when inexact)
FloatRound(sign, m, e, inexact) ==
    LET k == BigBitLen(m) - 53
    IN  IF m = << >> THEN FloatZero
        ELSE IF k <= 0 THEN FloatCanon(sign, m, e)
        ELSE FloatCanon(sign, BigRoundShift(m, k, inexact), e + k)

\* x * y
FloatMul(x, y) == FloatRound(x.s * y.s, BigMul(x.m, y.m), x.e + y.e, FALSE)

\* x + y
FloatAdd(x, y) ==
    LET e == IF x.e < y.e THEN x.e ELSE y.e
        xm == BigShiftLeft(x.m, x.e - e)
        ym == BigShiftLeft(y.m, y.e - e)
        c == BigCmp(xm, ym)
    IN  IF x.s = y.s THEN FloatRound(x.s, BigAdd(xm, ym), e, FALSE)
        ELSE IF c = 0 THEN FloatZero
        ELSE IF c > 0 THEN FloatRound(x.s, BigSub(xm, ym), e, FALSE)
        ELSE FloatRound(y.s, BigSub(ym, xm), e, FALSE)

\* x >= y
FloatGeq(x, y) ==
    LET d == FloatAdd(x, [y EXCEPT !.s = 0 - y.s])
    IN  d.m = << >> \/ d.s = 1

\* a decimal literal: sign * digits / 10^places
Decimal(sign, digits, places) == [s |-> sign, n |-> digits, p |-> places]

\* a / 10^p, with the remainders cut off remembered
RECURSIVE BigDivPow10(_, _, _)
BigDivPow10(a, p, inexact) ==
    IF p = 0 THEN [q |-> a, inexact |-> inexact]
    ELSE LET d == BigDivSmall(a, 10)
         IN  BigDivPow10(d.q, p - 1, inexact \/ d.r # 0)

\* float(literal): the float nearest to the decimal
FloatOfDecimal(d) ==
    LET shift == 56 + 4 * d.p
        scaled == BigDivPow10(BigShiftLeft(BigFromInt(d.n), shift), d.p, FALSE)
    IN  FloatRound(d.s, scaled.q, 0 - shift, scaled.inexact)

\* round(x * 10) to the nearest integer, ties to even, as round(x, 1) picks
\* the decimal digits of x
FloatTenths(x) ==
    LET t == BigMulSmall(x.m, 10)
    IN  x.s * BigToInt(IF x.e >= 0 THEN BigShiftLeft(t, x.e)
                       ELSE BigRoundShift(t, 0 - x.e, FALSE))

\* round(x, 1)
FloatRound1(x) ==
    LET t == FloatTenths(x)
    IN  FloatOfDecimal(Decimal(IF t < 0 THEN -1 ELSE 1, IF t < 0 THEN 0 - t ELSE t, 1))

-----------------------------------------------------------------------------
(* File names and paths *)

\* the characters that occur in names, in code-point order (str comparison)
CodePointOrder ==
    <<" ", "+", ",", "-", ".", "0", "1", "2", "3", "4", "5", "6", "7", "8", "9",
      "A", "B", "D", "F", "P", "_", "a", "b", "c", "d", "f", "j", "n", "o", "p", "s",
      "t", "x">>

Ord(c) == CHOOSE i \in 1..Len(CodePointOrder) : CodePointOrder[i] = c

\* a < b for two str values
RECURSIVE StrLess(_, _)
StrLess(a, b) ==
    IF a = << >> THEN b # << >>
    ELSE IF b = << >> THEN FALSE
    ELSE IF a[1] = b[1] THEN StrLess(Tail(a), Tail(b))
    ELSE Ord(a[1]) < Ord(b[1])

\* sorted(S, key=lambda x: x.name) for a set of names
RECURSIVE SortedNames(_)
SortedNames(S) ==
    IF S = {} THEN << >>
    ELSE LET m == CHOOSE x \in S : \A y \in S \ {x} : StrLess(x, y)
         IN  <<m>> \o SortedNames(S \ {m})

\* position of the dot that starts Path.suffix, 0 when the name has no suffix
SuffixDot(name) ==
    LET dots == {i \in 1..Len(name) : name[i] = "."}
        last == CHOOSE i \in dots : \A j \in dots : j <= i
    IN  IF dots = {} THEN 0
        ELSE IF last = 1 \/ last = Len(name) THEN 0
        ELSE last

\* Path.suffix
Suffix(name) ==
    IF SuffixDot(name) = 0 THEN << >> ELSE SubSeq(name, SuffixDot(name), Len(name))

\* Path.stem
Stem(name) ==
    IF SuffixDot(name) = 0 THEN name ELSE SubSeq(name, 1, SuffixDot(name) - 1)

\* f.is_file() and f.suffix.lower() == ".pdf"
IsPdf(name) == Lower(Suffix(name)) = <<".", "p", "d", "f">>

\* JSON_DIR / folder_name / (pdf_path.stem + ".json")
get_json_path_for_pdf(pdf_name, folder_name) ==
    [dir |-> folder_name, name |-> Stem(pdf_name) \o <<".", "j", "s", "o", "n">>]

\* re.match on ^(\d+)[_\-]: the leading digits when they are followed by
\* an underscore or a hyphen, else the empty string
extract_number_from_filename(filename) ==
    LET nonDigit == {i \in 1..Len(filename) : filename[i] \notin Digits}
        k == IF nonDigit = {} THEN Len(filename) + 1
             ELSE CHOOSE i \in nonDigit : \A j \in nonDigit : i <= j
    IN  IF k > 1 /\ k <= Len(filename) /\ filename[k] \in {"_", "-"}
        THEN SubSeq(filename, 1, k - 1)
        ELSE << >>

-----------------------------------------------------------------------------
(* scan_folders *)

\* the count taken against the artifacts of every folder, not of this one
CountProcessedAnyFolder(pdf_files, folder_name, json) ==
    Cardinality({i \in 1..Len(pdf_files) :
                    \E p \in DOMAIN json :
                        p.name = get_json_path_for_pdf(pdf_files[i], folder_name).name})

\* the loop over one folder's pdf_files that counts processed and pending
CountProcessed(pdf_files, folder_name, json) ==
    Cardinality({i \in 1..Len(pdf_files) :
                    get_json_path_for_pdf(pdf_files[i], folder_name) \in DOMAIN json})

\* the FolderStatus built for one sub-folder
FolderStatusOf(folder_name, files, json) ==
    LET pdf_files == SortedNames({f \in files : IsPdf(f)})
        processed == CountProcessed(pdf_files, folder_name, json)
    IN  [name |-> folder_name,
         total_pdfs |-> Len(pdf_files),
         processed |-> processed,
         pending |-> Len(pdf_files) - processed,
         pdf_files |-> pdf_files]

\* every sub-folder listed, with or without a PDF
ScanFoldersEveryDir(dirs, json) ==
    LET names == SortedNames(DOMAIN dirs)
    IN  [i \in 1..Len(names) |-> FolderStatusOf(names[i], dirs[names[i]], json)]

\* the list of FolderStatus of the sub-folders that hold a PDF, sorted by name
scan_folders(dirs, json) ==
    LET names == SortedNames({d \in DOMAIN dirs : \E f \in dirs[d] : IsPdf(f)})
    IN  [i \in 1..Len(names) |-> FolderStatusOf(names[i], dirs[names[i]], json)]

\* the first loop branch of scan_folders: the files directly under PDF_DIR
\* with the suffix .pdf, appended in the order iterdir yields them; the
\* file system decides that order, so every order of them is a possible
\* list
RootPdfs(root) ==
    LET pdfs == {f \in root : IsPdf(f)}
    IN  {s \in [1..Cardinality(pdfs) -> pdfs] :
            \A i, j \in 1..Cardinality(pdfs) : i # j => s[i] # s[j]}

-----------------------------------------------------------------------------
(* parse_theme_buckets *)

NoThemeFile == [exists |-> FALSE, content |-> << >>]

ThemeFile(content) == [exists |-> TRUE, content |-> content]

\* the theme one line contributes: << >> when it contributes none
ThemeOfLine(raw) ==
    LET line == Strip(raw)
    IN  IF StartsWith(line, <<"#", "#", " ">>) /\ ~StartsWith(line, <<"#", "#", " ">>)
        THEN Strip(SubSeq(line, 4, Len(line)))
        ELSE IF StartsWith(line, <<"#", "#">>)
        THEN Strip(SubSeq(line, 3, Len(line)))
        ELSE << >>

\* the loop over the lines: the non-empty theme names, in file order
RECURSIVE ThemesOfLines(_)
ThemesOfLines(lines) ==
    IF lines = << >> THEN << >>
    ELSE LET theme_name == ThemeOfLine(Head(lines))
         IN  (IF theme_name # << >> THEN <<theme_name>> ELSE << >>)
                \o ThemesOfLines(Tail(lines))

parse_theme_buckets(content) == ThemesOfLines(Split(content, "\n"))

-----------------------------------------------------------------------------
(* The inference response: clean_json_response and json.loads *)

\* A response is a sequence of chunks: the fence (three backquotes), the
\* language tag "json", white space, and bodies.  "{obj}" is the text of a JSON object,
\* "[arr]" the text of a JSON value that is not an object, "prose" is text
\* that is not JSON.
Fence == "<fence>"

JsonTag == "json"

\* clean_json_response
clean_json_response(text) ==
    LET t1 == Strip(text)
        t2 == IF StartsWith(t1, <<Fence, JsonTag>>) THEN SubSeq(t1, 3, Len(t1))
              ELSE IF StartsWith(t1, <<Fence>>) THEN SubSeq(t1, 2, Len(t1))
              ELSE t1
        t3 == IF EndsWith(t2, <<Fence>>) THEN SubSeq(t2, 1, Len(t2) - 1) ELSE t2
    IN  Strip(t3)

\* json.loads: "dict" for an object, "other" for another JSON value,
\* "JSONDecodeError" when the text is not exactly one JSON value
json_loads(text) ==
    LET t == Strip(text)
    IN  IF t = <<"{obj}">> THEN "dict"
        ELSE IF t = <<"[arr]">> THEN "other"
        ELSE "JSONDecodeError"

\* the responses the service is let to give
Responses ==
    { <<"{obj}">>,
      <<Fence, JsonTag, "\n", "{obj}", "\n", Fence>>,
      <<Fence, "\n", "{obj}", "\n", Fence, "\n">>,
      <<Fence, JsonTag, "\n", "{obj}">>,
      <<"prose">>,
      <<"prose", "\n", Fence, JsonTag, "\n", "{obj}", "\n", Fence>>,
      <<Fence, JsonTag, "\n", "prose", "\n", Fence>>,
      <<"{obj}", "{obj}">>,
      <<"[arr]">>,
      << >> }

-----------------------------------------------------------------------------
(* The tables *)

NoFile == [exists |-> FALSE, rows |-> << >>]

\* a table written anew with its header at every call
InitCsvTruncating(csv) == [exists |-> TRUE, rows |-> << >>]

\* init_csv: a table that does not exist is created with its header only
init_csv(csv) == IF csv.exists THEN csv ELSE [exists |-> TRUE, rows |-> << >>]

\* the row append_to_csv writes: the index column, and the record it projects
\* (identified by its source file and folder)
CsvRow(file, folder_name, index_value, r) ==
    [index |-> index_value, file |-> file, source_folder |-> folder_name, run |-> r]

\* append_to_csv: opening for append creates the file when it is missing
append_to_csv(csv, row) == [exists |-> TRUE, rows |-> Append(csv.rows, row)]

\* the artifact json.dump writes; complete is FALSE for a file that was
\* opened for writing (truncated) and whose dump did not finish
Artifact(file, folder_name, complete, r) ==
    [file |-> file, source_folder |-> folder_name, complete |-> complete, run |-> r]

-----------------------------------------------------------------------------
(* scenario_rescoring.py: score_to_level and calculate_scenario_score *)

\* a recommendation level: that many stars
Stars(n) == [i \in 1..n |-> "*"]

\* the table of thresholds and levels, highest first
SCORE_TO_LEVEL ==
    << [threshold |-> Decimal(1, 90, 1), level |-> Stars(5)],
       [threshold |-> Decimal(1, 75, 1), level |-> Stars(4)],
       [threshold |-> Decimal(1, 60, 1), level |-> Stars(3)],
       [threshold |-> Decimal(1, 40, 1), level |-> Stars(2)],
       [threshold |-> Decimal(1, 0, 1), level |-> Stars(1)] >>

\* the thresholds taken as exclusive bounds
ScoreToLevelExclusive(x) ==
    LET hit == {i \in 1..Len(SCORE_TO_LEVEL) :
                   /\ FloatGeq(x, FloatOfDecimal(SCORE_TO_LEVEL[i].threshold))
                   /\ x # FloatOfDecimal(SCORE_TO_LEVEL[i].threshold)}
    IN  IF hit = {} THEN Stars(1)
        ELSE SCORE_TO_LEVEL[CHOOSE i \in hit : \A j \in hit : i <= j].level

\* score_to_level: the level of the first entry whose threshold the score
\* reaches, one star when it reaches none
score_to_level(x) ==
    LET hit == {i \in 1..Len(SCORE_TO_LEVEL) :
                   FloatGeq(x, FloatOfDecimal(SCORE_TO_LEVEL[i].threshold))}
    IN  IF hit = {} THEN Stars(1)
        ELSE SCORE_TO_LEVEL[CHOOSE i \in hit : \A j \in hit : i <= j].level

\* the five dimensions, in the order the sum is written
Dimensions == <<"rigor", "innovation", "practicality", "impact", "readability">>

\* the sum as it comes, not rounded
WeightedSumNotRounded(p, w) ==
    LET t(i) == FloatMul(p[Dimensions[i]], w[Dimensions[i]])
    IN  FloatAdd(FloatAdd(FloatAdd(FloatAdd(t(1), t(2)), t(3)), t(4)), t(5))

\* round(rigor * w.rigor + ... + readability * w.readability, 1), the sum
\* taken from left to right
WeightedSum(p, w) ==
    LET t(i) == FloatMul(p[Dimensions[i]], w[Dimensions[i]])
    IN  FloatRound1(FloatAdd(FloatAdd(FloatAdd(FloatAdd(t(1), t(2)), t(3)), t(4)), t(5)))

\* calculate_scenario_score(paper, weights), on the floats of both
calculate_scenario_score(p, w) ==
    LET overall == WeightedSum(p, w)
    IN  [scenario_name |-> "", overall_score |-> overall, level |-> score_to_level(overall)]

\* the floats a record of literals denotes
Floats(literals) == [k \in DOMAIN literals |-> FloatOfDecimal(literals[k])]

-----------------------------------------------------------------------------
(* scenario_rescoring.py: load_p0_csv, the comparison table, the ranking   *)
(* tables                                                                  *)

\* float(s) for a string of digits, points, signs, blanks and letters that
\* spell no exponent, infinity or nan: blanks around are ignored, one sign
\* is allowed, then digits with at most one point and at least one digit
PyFloat(s) ==
    LET t    == Strip(s)
        sign == IF t # << >> /\ t[1] \in {"+", "-"} THEN t[1] ELSE ""
        body == IF sign = "" THEN t ELSE Tail(t)
        dots == {i \in 1..Len(body) : body[i] = "."}
        wellFormed ==
            /\ \A i \in 1..Len(body) : body[i] \in Digits \cup {"."}
            /\ Cardinality(dots) <= 1
            /\ Len(body) > Cardinality(dots)
        places == IF dots = {} THEN 0 ELSE Len(body) - (CHOOSE i \in dots : TRUE)
    IN  IF wellFormed
        THEN [ok |-> TRUE,
              val |-> Decimal(IF sign = "-" THEN -1 ELSE 1,
                              DecimalValue(RemoveChar(body, ".")), places)]
        ELSE [ok |-> FALSE, val |-> Decimal(1, 0, 0)]

\* float(row.get(column, 0) or 0): an empty cell counts as 0
CellFloat(cell) ==
    IF cell = << >> THEN [ok |-> TRUE, val |-> Decimal(1, 0, 0)] ELSE PyFloat(cell)

\* the columns load_p0_csv reads as numbers
ScoreColumns ==
    <<"rigor", "innovation", "practicality", "impact", "readability", "overall">>

\* the PaperRecord of a row whose six numbers parse
PaperRecord(row) ==
    [index |-> Strip(row.index),
     title |-> Strip(row.title),
     rigor |-> FloatOfDecimal(CellFloat(row.rigor).val),
     innovation |-> FloatOfDecimal(CellFloat(row.innovation).val),
     practicality |-> FloatOfDecimal(CellFloat(row.practicality).val),
     impact |-> FloatOfDecimal(CellFloat(row.impact).val),
     readability |-> FloatOfDecimal(CellFloat(row.readability).val),
     p0_overall |-> FloatOfDecimal(CellFloat(row.overall).val),
     p0_level |-> row.level,
     original_row |-> row]

\* whether the try block of load_p0_csv raises ValueError on the row
RaisesValueError(row) == \E i \in 1..6 : ~CellFloat(row[ScoreColumns[i]]).ok

\* a reader that stops at the first row that does not parse
LoadP0CsvUntilError(rows) ==
    LET bad == {i \in DOMAIN rows : RaisesValueError(rows[i])}
        n == IF bad = {} THEN Len(rows)
             ELSE (CHOOSE i \in bad : \A j \in bad : i <= j) - 1
    IN  [i \in 1..n |-> PaperRecord(rows[i])]

\* load_p0_csv: the records of the rows that parse, in file order
RECURSIVE load_p0_csv(_)
load_p0_csv(rows) ==
    IF rows = << >> THEN << >>
    ELSE (IF RaisesValueError(Head(rows)) THEN << >> ELSE <<PaperRecord(Head(rows))>>)
            \o load_p0_csv(Tail(rows))

\* the warnings load_p0_csv prints: the index column of each skipped row
RECURSIVE SkippedRows(_)
SkippedRows(rows) ==
    IF rows = << >> THEN << >>
    ELSE (IF RaisesValueError(Head(rows)) THEN <<Head(rows).index>> ELSE << >>)
            \o SkippedRows(Tail(rows))

\* one row of the comparison table
ComparisonRow(p, scenarios) ==
    [index |-> p.index, title |-> p.title,
     rigor |-> p.rigor, innovation |-> p.innovation, practicality |-> p.practicality,
     impact |-> p.impact, readability |-> p.readability,
     p0_overall |-> p.p0_overall, p0_level |-> p.p0_level,
     scores |-> [k \in 1..Len(scenarios) |->
                   calculate_scenario_score(p, Floats(scenarios[k].weights))]]

\* create_comparison_table: the header and one row for each paper
create_comparison_table(ps, scenarios) ==
    [exists |-> TRUE, rows |-> [i \in 1..Len(ps) |-> ComparisonRow(ps[i], scenarios)]]

\* the ranks that get the TOP mark
TopRanks == 10

\* list.sort(key=overall_score, reverse=True): descending, and stable, so
\* that of equal scores the one that came first stays first
RECURSIVE SortedByScore(_)
SortedByScore(scored) ==
    IF scored = << >> THEN << >>
    ELSE LET best == CHOOSE i \in 1..Len(scored) :
                        /\ \A j \in 1..Len(scored) :
                              FloatGeq(scored[i].score.overall_score,
                                       scored[j].score.overall_score)
                        /\ \A j \in 1..(i - 1) :
                              scored[j].score.overall_score # scored[i].score.overall_score
         IN  <<scored[best]>>
                \o SortedByScore(SubSeq(scored, 1, best - 1)
                                   \o SubSeq(scored, best + 1, Len(scored)))

\* the mark of a rank: TOP and the rank, or nothing
TopMark(rank) == IF rank <= TopRanks THEN <<"TOP", rank>> ELSE << >>

\* scored_papers: each paper with its score under the weights, in file order
RECURSIVE ScoredPapers(_, _)
ScoredPapers(ps, w) ==
    IF ps = << >> THEN << >>
    ELSE <<[paper |-> Head(ps), score |-> calculate_scenario_score(Head(ps), w)]>>
            \o ScoredPapers(Tail(ps), w)

\* the rows written for the sorted papers, the first of them at the rank
RECURSIVE RankedRows(_, _)
RankedRows(sorted, rank) ==
    IF sorted = << >> THEN << >>
    ELSE <<[row |-> Head(sorted).paper.original_row,
            overall |-> Head(sorted).score.overall_score,
            level |-> Head(sorted).score.level,
            top |-> TopMark(rank)]>>
            \o RankedRows(Tail(sorted), rank + 1)

\* the ranking table of one scenario, for a non-empty list of papers
RankingTable(ps, scenario) ==
    [exists |-> TRUE, header |-> TRUE,
     rows |-> RankedRows(SortedByScore(ScoredPapers(ps, Floats(scenario.weights))), 1)]

\* the file of a ranking table that was opened for writing and got nothing:
\* papers[0] raised IndexError before the header was written
EmptyRankingFile == [exists |-> TRUE, header |-> FALSE, rows |-> << >>]

\* create_scenario_ranking_tables: one table for each scenario in turn;
\* with no paper the first scenario raises IndexError
RankingTables(ps, scenarios) ==
    IF ps = << >>
    THEN [n \in {scenarios[k].name : k \in {1} \cap DOMAIN scenarios} |-> EmptyRankingFile]
    ELSE [n \in {scenarios[k].name : k \in DOMAIN scenarios} |->
            RankingTable(ps, scenarios[CHOOSE k \in DOMAIN scenarios : scenarios[k].name = n])]

-----------------------------------------------------------------------------
(* The documents and the state a run starts from *)

FolderA == <<"A">>

FolderB == <<"B">>

FolderNames == {FolderA, FolderB}

\* two files of one folder with the same stem, and one file of its own
Pdf1Upper == <<"1", "_", "a", ".", "P", "D", "F">>

Pdf1Lower == <<"1", "_", "a", ".", "p", "d", "f">>

Pdf2 == <<"2", "-", "b", ".", "p", "d", "f">>

Pdf3 == <<"3", "_", "c", ".", "p", "d", "f">>

\* a document left directly under PDF_DIR
StrayPdf == <<"s", ".", "p", "d", "f">>

\* a second document directly under PDF_DIR
OtherStrayPdf == <<"t", ".", "p", "d", "f">>

\* a file that is no document
NotesTxt == <<"n", ".", "t", "x", "t">>

\* a file whose whole name is ".pdf": Path.suffix is empty for it
DotPdf == <<".", "p", "d", "f">>

\* the files each folder may hold
FolderFiles(folder_name) ==
    IF folder_name = FolderA THEN {Pdf1Upper, Pdf1Lower} ELSE {Pdf2}

ZeroStats == [success |-> 0, skip |-> 0, fail |-> 0]

NoFolder == [name |-> << >>, total_pdfs |-> 0, processed |-> 0, pending |-> 0,
             pdf_files |-> << >>]

NoFrame == [folder |-> NoFolder, overwrite |-> FALSE, global_index_start |-> 0,
            stats |-> ZeroStats, global_index |-> 0, to_process |-> << >>, i |-> 0]

NoUi == [choice |-> << >>, confirm |-> << >>, ow_choice |-> << >>,
         indices |-> << >>, overwrite |-> FALSE]

NoLoop == [pos |-> 0, total_stats |-> ZeroStats, global_index |-> 0]

\* The outputs an earlier run left: that run found exactly the documents
\* `done` in the folders and every one of them succeeded (run number 0).
PriorRows(folder_name, done) ==
    LET ds == SortedNames(done[folder_name])
    IN  [i \in 1..Len(ds) |->
            [index |-> extract_number_from_filename(ds[i]), file |-> ds[i],
             source_folder |-> folder_name, run |-> 0]]

PriorFolderCsv(folder_name, done) ==
    IF done[folder_name] = {} THEN [exists |-> FALSE, rows |-> << >>]
    ELSE [exists |-> TRUE, rows |-> PriorRows(folder_name, done)]

PriorAllCsv(done) ==
    LET rows == PriorRows(FolderA, done) \o PriorRows(FolderB, done)
    IN  IF rows = << >> THEN [exists |-> FALSE, rows |-> << >>]
        ELSE [exists |-> TRUE,
              rows |-> [i \in 1..Len(rows) |-> [rows[i] EXCEPT !.index = IntToStr(i)]]]

PriorJson(done) ==
    LET paths == UNION {{get_json_path_for_pdf(d, f) : d \in done[f]} : f \in FolderNames}
        \* of the documents that share an artifact path the last one wrote it
        writer(p) == CHOOSE d \in done[p.dir] :
                        /\ get_json_path_for_pdf(d, p.dir) = p
                        /\ \A e \in done[p.dir] \ {d} :
                              get_json_path_for_pdf(e, p.dir) = p => StrLess(e, d)
    IN  [p \in paths |->
            [file |-> writer(p), source_folder |-> p.dir, complete |-> TRUE, run |-> 0]]

\* the directories before a run, files the documents each folder may hold
InitFilesIn(files) ==
    \E dirs \in [FolderNames -> SUBSET (files[FolderA] \cup files[FolderB])] :
        /\ \A f \in FolderNames : dirs[f] \subseteq files[f]
        /\ \E done \in [FolderNames -> SUBSET (files[FolderA] \cup files[FolderB])] :
              /\ \A f \in FolderNames : done[f] \subseteq dirs[f]
              /\ pdf_dir = dirs
              /\ json_files = PriorJson(done)
              /\ folder_csv = [f \in FolderNames |-> PriorFolderCsv(f, done)]
              /\ all_csv = PriorAllCsv(done)
              /\ error_log = << >>

InitFiles == InitFilesIn([f \in FolderNames |-> FolderFiles(f)])

\* the configuration a run that reached the scan has: both files present,
\* the theme file naming the two folders, nothing directly under PDF_DIR
ThemeAB == <<"#", "#", " ", "A", "\n", "#", "#", " ", "B">>

StartDone ==
    /\ prompt_file = TRUE
    /\ theme_file = ThemeFile(ThemeAB)
    /\ pdf_dir_exists = TRUE
    /\ root_files = {}
    /\ root_pdfs = << >>
    /\ themes = << >>

StartIdle ==
    /\ prompt_file = FALSE
    /\ theme_file = NoThemeFile
    /\ pdf_dir_exists = FALSE
    /\ root_files = {}
    /\ root_pdfs = << >>
    /\ themes = << >>

NoScores == [k \in {Dimensions[i] : i \in 1..5} |-> Decimal(1, 0, 0)]

NoConfig == [exists |-> FALSE, scenarios |-> << >>]

LevelIdle ==
    /\ score = Decimal(1, 0, 0)
    /\ level = << >>

CalcIdle ==
    /\ paper = NoScores
    /\ weights = NoScores
    /\ scenario_score = [scenario_name |-> "", overall_score |-> FloatZero, level |-> << >>]

RescoreIdle ==
    /\ p0_csv = NoFile
    /\ config = NoConfig
    /\ papers = << >>
    /\ warnings = << >>
    /\ comparison = NoFile
    /\ rankings = << >>

ScoringIdle == LevelIdle /\ CalcIdle /\ RescoreIdle

RenameIdle ==
    /\ inbox = << >>
    /\ rename_counts = << >>

SelIdle ==
    /\ selection = << >>
    /\ max_num = 0
    /\ sel_pc = "idle"
    /\ sel_result = [ok |-> TRUE, indices |-> << >>]

\* no project files and main not running; pc is left to the caller
MainRest ==
    /\ pdf_dir = [f \in FolderNames |-> {}]
    /\ json_files = << >>
    /\ folder_csv = [f \in FolderNames |-> [exists |-> FALSE, rows |-> << >>]]
    /\ all_csv = [exists |-> FALSE, rows |-> << >>]
    /\ error_log = << >>
    /\ folders = << >>
    /\ mode = ""
    /\ selected_indices = << >>
    /\ overwrite = FALSE
    /\ ui = NoUi
    /\ loop = NoLoop
    /\ pf = NoFrame
    /\ run = 0
    /\ trace = << >>

MainIdle == MainRest /\ pc = "idle"

\* one entry of the trace: what happened, and for which document
Event(e, folder_name, file, why) ==
    [e |-> e, folder |-> folder_name, file |-> file, why |-> why]

-----------------------------------------------------------------------------
(* main, steps 1 to 3: check_required_files, sync_folder_structure,        *)
(* test_api_connection                                                     *)

\* only the prompt template is looked at
AllOkPromptOnly(prompt, theme) == prompt

\* check_required_files: all_ok after the loop over the two checks
AllOk(prompt, theme) == prompt /\ theme.exists

\* main: check_required_files(), which creates PDF_DIR when it is missing;
\* return when it answers False
CheckRequiredFiles ==
    /\ pc = "check"
    /\ pdf_dir_exists' = TRUE
    /\ pc' = IF AllOk(prompt_file, theme_file) THEN "sync" ELSE "aborted"
    /\ UNCHANGED <<selVars, scoringVars, renameVars, fileVars, folders, planVars, loop, pf, run, trace>>
    /\ UNCHANGED <<prompt_file, theme_file, root_files, root_pdfs, themes>>

\* the folders sync_folder_structure leaves: one is made for every theme
\* that names no existing folder; with no theme nothing is touched
SyncedDirs(dirs, ts) ==
    LET missing == {ts[i] : i \in 1..Len(ts)} \ DOMAIN dirs
    IN  [d \in DOMAIN dirs \cup missing |-> IF d \in DOMAIN dirs THEN dirs[d] ELSE {}]

\* main: sync_folder_structure()
SyncFolderStructure ==
    /\ pc = "sync"
    /\ pdf_dir' = SyncedDirs(pdf_dir, parse_theme_buckets(theme_file.content))
    /\ pc' = "api"
    /\ UNCHANGED <<selVars, scoringVars, renameVars, startVars, json_files, folder_csv, all_csv, error_log,
                   folders, planVars, loop, pf, run, trace>>

\* what the connectivity test can meet: no API key (no request is made), an
\* answer with content, an answer without content, an exception
ApiOutcomes == {"no_key", "ok", "empty", "raises"}

\* main: test_api_connection(); return when it answers False
TestApiConnection ==
    /\ pc = "api"
    /\ \E outcome \in ApiOutcomes :
        /\ trace' = IF outcome = "no_key" THEN trace
                     ELSE Append(trace, Event("api_test", << >>, << >>, outcome))
        /\ pc' = IF outcome = "ok" THEN "scan" ELSE "aborted"
    /\ UNCHANGED <<selVars, scoringVars, renameVars, startVars, fileVars, folders, planVars, loop, pf, run>>

-----------------------------------------------------------------------------
(* main, step 4: scan_folders *)

\* main: folders, root_pdfs = scan_folders(); return when there is no folder
MainScan ==
    /\ pc = "scan"
    /\ folders' = scan_folders(pdf_dir, json_files)
    /\ root_pdfs' \in RootPdfs(root_files)
    /\ themes' = parse_theme_buckets(theme_file.content)
    /\ pc' = IF folders' = << >> THEN "done" ELSE "choice"
    /\ UNCHANGED <<selVars, scoringVars, renameVars, fileVars, planVars, loop, pf, run, trace>>
    /\ UNCHANGED <<prompt_file, theme_file, pdf_dir_exists, root_files>>

-----------------------------------------------------------------------------
(* main, step 5: get_user_choice and get_folder_selection *)

\* what the user may type at each prompt
ChoiceInputs ==
    {<<"a">>, <<" ", "A">>, <<"r">>, <<"R", " ">>, <<"s">>, <<"q">>, <<"x">>, << >>}

ConfirmInputs == {<<"y">>, <<" ", "Y">>, <<"y", "e", "s">>, <<"n">>, << >>}

SelectionInputs ==
    {<<"1">>, <<"2">>, <<"1", ",", "2">>, <<"1", "-", "2">>, <<"2", ",", " ", "1">>,
     <<"3">>, <<"2", "-", "1">>, <<"x">>, <<",">>, <<"b">>, <<"B">>}

OverwriteInputs == {<<"o">>, <<"O", " ">>, <<"n">>, <<"y">>, << >>}

\* every folder that holds a document, pending or not
PendingIndicesAll(fs) == SortedList({i - 1 : i \in {j \in 1..Len(fs) : fs[j].total_pdfs > 0}})

\* [i for i, f in enumerate(folders) if f.pending > 0]
PendingIndices(fs) == SortedList({i - 1 : i \in {j \in 1..Len(fs) : fs[j].pending > 0}})

\* [i for i, f in enumerate(folders) if f.total_pdfs > 0]
TotalIndices(fs) == SortedList({i - 1 : i \in {j \in 1..Len(fs) : fs[j].total_pdfs > 0}})

\* confirm == "y" after strip().lower(), for the re-run confirmation
RerunConfirmed(answer) == Lower(Strip(answer)) = <<"y">>

\* any(folders[i].processed > 0 for i in indices)
HasProcessed(fs, indices) ==
    \E k \in 1..Len(indices) : fs[indices[k] + 1].processed > 0

\* overwrite unless the answer is N
OverwriteUnlessSkip(answer) == Upper(Strip(answer)) # <<"N">>

\* overwrite = (ow_choice == "O") after strip().upper()
OverwriteChosen(answer) == Upper(Strip(answer)) = <<"O">>

\* confirm in ("", "y", "yes") after strip().lower()
StartConfirmed(answer) ==
    Lower(Strip(answer)) \in {<< >>, <<"y">>, <<"y", "e", "s">>}

\* return (mode, indices, overwrite) to main
ReturnChoice(m, indices, ow) ==
    /\ mode' = m
    /\ selected_indices' = indices
    /\ overwrite' = ow
    /\ pc' = "planned"

\* get_user_choice: one pass of its input loop
GetUserChoice ==
    /\ pc = "choice"
    /\ \E inp \in ChoiceInputs :
        LET choice == Upper(Strip(inp))
            indices == PendingIndices(folders)
        IN  /\ ui' = [ui EXCEPT !.choice = inp]
            /\ IF choice = <<"Q">>
               THEN ReturnChoice("quit", << >>, FALSE)
               ELSE IF choice = <<"A">>
               THEN IF indices = << >>
                    THEN ReturnChoice("quit", << >>, FALSE)
                    ELSE ReturnChoice("all", indices, FALSE)
               ELSE /\ pc' = IF choice = <<"R">> THEN "confirm_rerun"
                             ELSE IF choice = <<"S">> THEN "selection"
                             ELSE "choice"
                    /\ UNCHANGED <<mode, selected_indices, overwrite>>
    /\ UNCHANGED <<selVars, scoringVars, renameVars, startVars, fileVars, folders, loop, pf, run, trace>>

\* get_user_choice, choice R: the confirmation before everything is re-run
ConfirmRerun ==
    /\ pc = "confirm_rerun"
    /\ \E inp \in ConfirmInputs :
        /\ ui' = [ui EXCEPT !.confirm = inp]
        /\ IF RerunConfirmed(inp)
           THEN ReturnChoice("all", TotalIndices(folders), TRUE)
           ELSE /\ pc' = "choice"
                /\ UNCHANGED <<mode, selected_indices, overwrite>>
    /\ UNCHANGED <<selVars, scoringVars, renameVars, startVars, fileVars, folders, loop, pf, run, trace>>

\* get_folder_selection: one pass of its input loop up to the overwrite prompt
GetFolderSelection ==
    /\ pc = "selection"
    /\ \E inp \in SelectionInputs :
        LET sel == Strip(inp)
            r == parse_selection(sel, Len(folders))
        IN  IF Upper(sel) = <<"B">>
            THEN /\ pc' = "choice"
                 /\ ui' = [ui EXCEPT !.indices = << >>, !.overwrite = FALSE,
                                     !.ow_choice = << >>]
            ELSE IF ~r.ok \/ r.indices = << >>
            THEN /\ pc' = "selection"
                 /\ ui' = [ui EXCEPT !.indices = << >>, !.overwrite = FALSE,
                                     !.ow_choice = << >>]
            ELSE /\ pc' = IF HasProcessed(folders, r.indices)
                          THEN "overwrite_choice" ELSE "confirm_start"
                 /\ ui' = [ui EXCEPT !.indices = r.indices, !.overwrite = FALSE,
                                     !.ow_choice = << >>]
    /\ UNCHANGED <<selVars, scoringVars, renameVars, startVars, fileVars, folders, mode, selected_indices, overwrite,
                   loop, pf, run, trace>>

\* get_folder_selection: the skip-or-overwrite prompt
OverwriteChoice ==
    /\ pc = "overwrite_choice"
    /\ \E inp \in OverwriteInputs :
        ui' = [ui EXCEPT !.ow_choice = inp, !.overwrite = OverwriteChosen(inp)]
    /\ pc' = "confirm_start"
    /\ UNCHANGED <<selVars, scoringVars, renameVars, startVars, fileVars, folders, mode, selected_indices, overwrite,
                   loop, pf, run, trace>>

\* get_folder_selection: the final confirmation
ConfirmStart ==
    /\ pc = "confirm_start"
    /\ \E inp \in ConfirmInputs :
        /\ ui' = [ui EXCEPT !.confirm = inp]
        /\ IF StartConfirmed(inp)
           THEN ReturnChoice("select", ui.indices, ui.overwrite)
           ELSE /\ pc' = "selection"
                /\ UNCHANGED <<mode, selected_indices, overwrite>>
    /\ UNCHANGED <<selVars, scoringVars, renameVars, startVars, fileVars, folders, loop, pf, run, trace>>

-----------------------------------------------------------------------------
(* main, step 6: the loop over the selected folders *)

\* main after get_user_choice returned: quit, or set up the loop
MainAfterChoice ==
    /\ pc = "planned"
    /\ IF mode = "quit"
       THEN pc' = "done" /\ loop' = loop
       ELSE /\ pc' = "loop"
            /\ loop' = [pos |-> 1, total_stats |-> ZeroStats, global_index |-> 1]
    /\ ui' = NoUi
    /\ UNCHANGED <<selVars, scoringVars, renameVars, startVars, fileVars, folders, mode, selected_indices, overwrite,
                   pf, run, trace>>

\* the folder the loop is at
LoopFolder == folders[selected_indices[loop.pos] + 1]

\* main loop: a folder with nothing pending is passed over without overwrite
MainLoopContinue ==
    /\ pc = "loop"
    /\ loop.pos <= Len(selected_indices)
    /\ ~overwrite /\ LoopFolder.pending = 0
    /\ loop' = [loop EXCEPT !.pos = @ + 1]
    /\ UNCHANGED <<selVars, scoringVars, renameVars, startVars, fileVars, pc, folders, planVars, pf, run, trace>>

\* main loop: process_folder(folder, prompt_template, theme_content, overwrite, global_index)
MainLoopCall ==
    /\ pc = "loop"
    /\ loop.pos <= Len(selected_indices)
    /\ ~(~overwrite /\ LoopFolder.pending = 0)
    /\ pf' = [NoFrame EXCEPT !.folder = LoopFolder, !.overwrite = overwrite,
                             !.global_index_start = loop.global_index]
    /\ pc' = "pf_enter"
    /\ UNCHANGED <<selVars, scoringVars, renameVars, startVars, fileVars, folders, planVars, loop, run, trace>>

\* the counter started again for every folder
CarriedGlobalIndexReset(returned) == 1

\* the global index main carries to the next folder
CarriedGlobalIndex(returned) == returned

\* main loop: stats, global_index = ...; total_stats[key] += stats[key]
MainAfterFolder ==
    /\ pc = "pf_ret"
    /\ loop' = [pos |-> loop.pos + 1,
                total_stats |-> [k \in DOMAIN ZeroStats |->
                                    loop.total_stats[k] + pf.stats[k]],
                global_index |-> CarriedGlobalIndex(pf.global_index)]
    /\ pf' = NoFrame
    /\ pc' = "loop"
    /\ UNCHANGED <<selVars, scoringVars, renameVars, startVars, fileVars, folders, planVars, run, trace>>

\* main: the loop is over, the summary is printed
MainFinish ==
    /\ pc = "loop"
    /\ loop.pos > Len(selected_indices)
    /\ pc' = "done"
    /\ UNCHANGED <<selVars, scoringVars, renameVars, startVars, fileVars, folders, planVars, loop, pf, run, trace>>

-----------------------------------------------------------------------------
(* process_folder *)

\* every document taken, whether its artifact exists or not
ToProcessIgnoringArtifacts(pdf_files, folder_name, ow, json) == pdf_files

\* the first pass over folder.pdf_files: the documents to process, in order
ToProcess(pdf_files, folder_name, ow, json) ==
    SelectSeq(pdf_files,
              LAMBDA f : ow \/ get_json_path_for_pdf(f, folder_name) \notin DOMAIN json)

\* no document counted as skipped
SkipCountNone(pdf_files, folder_name, ow, json) == 0

\* the documents that pass counts in stats["skip"]
SkipCount(pdf_files, folder_name, ow, json) ==
    Len(pdf_files) - Len(ToProcess(pdf_files, folder_name, ow, json))

\* the per-folder table after the overwrite unlink and init_csv
FolderCsvAtEntry(csv, ow) == init_csv(IF ow /\ csv.exists THEN NoFile ELSE csv)

\* the document the loop is at, and its artifact path
CurrentPdf == pf.to_process[pf.i]

CurrentJsonPath == get_json_path_for_pdf(CurrentPdf, pf.folder.name)

\* process_folder up to the loop: the tables are prepared and the documents
\* to process are listed; with none the call returns at once
PFEnter ==
    /\ pc = "pf_enter"
    /\ LET name == pf.folder.name
           to_process == ToProcess(pf.folder.pdf_files, name, pf.overwrite, json_files)
       IN  /\ folder_csv' = [folder_csv EXCEPT ![name] = FolderCsvAtEntry(@, pf.overwrite)]
           /\ all_csv' = init_csv(all_csv)
           /\ pf' = [pf EXCEPT !.stats = [ZeroStats EXCEPT !.skip =
                                    SkipCount(pf.folder.pdf_files, name, pf.overwrite, json_files)],
                               !.global_index = pf.global_index_start,
                               !.to_process = to_process,
                               !.i = 1]
           /\ pc' = IF to_process = << >> THEN "pf_ret" ELSE "pf_extract"
    /\ UNCHANGED <<selVars, scoringVars, renameVars, startVars, pdf_dir, json_files, error_log, folders, planVars, loop,
                   run, trace>>

\* the except clauses: stats["fail"] += 1, then log_error, which appends one
\* line to the error log or raises in its turn (the log cannot be written);
\* what it raises is caught nowhere
Fail(tr, why) ==
    /\ pf' = [pf EXCEPT !.stats.fail = @ + 1]
    /\ \E logged \in BOOLEAN :
        IF logged
        THEN /\ error_log' = Append(error_log, CurrentPdf)
             /\ pc' = "pf_wait"
             /\ trace' = tr \o <<Event("fail", pf.folder.name, CurrentPdf, why),
                                 Event("log", pf.folder.name, CurrentPdf, why)>>
        ELSE /\ error_log' = error_log
             /\ pc' = "crashed"
             /\ trace' = Append(tr, Event("fail", pf.folder.name, CurrentPdf, why))

\* extract_pdf_text(pdf_path): returns the text or raises
PFExtract ==
    /\ pc = "pf_extract"
    /\ LET tr == Append(trace, Event("doc", pf.folder.name, CurrentPdf, ""))
       IN  \E extracted \in BOOLEAN :
              IF extracted
              THEN /\ pc' = "pf_call"
                   /\ trace' = tr
                   /\ UNCHANGED <<pf, error_log>>
              ELSE Fail(tr, "extract")
    /\ UNCHANGED <<selVars, scoringVars, renameVars, startVars, pdf_dir, json_files, folder_csv, all_csv, folders,
                   planVars, loop, run>>

\* what call_llm may do: raise (timeout, network, status), or return a text
ServiceOutcomes ==
    {[raised |-> TRUE, text |-> << >>]} \cup {[raised |-> FALSE, text |-> t] : t \in Responses}

\* call_llm, clean_json_response, json.loads and the source_folder stamp
PFCall ==
    /\ pc = "pf_call"
    /\ LET tr == Append(trace, Event("llm", pf.folder.name, CurrentPdf, ""))
       IN  \E out \in ServiceOutcomes :
              LET data == json_loads(clean_json_response(out.text))
              IN  IF out.raised THEN Fail(tr, "service")
                  ELSE IF data = "JSONDecodeError" THEN Fail(tr, "parse")
                  ELSE IF data # "dict" THEN Fail(tr, "stamp")
                  ELSE /\ pc' = "pf_save"
                       /\ trace' = tr
                       /\ UNCHANGED <<pf, error_log>>
    /\ UNCHANGED <<selVars, scoringVars, renameVars, startVars, pdf_dir, json_files, folder_csv, all_csv, folders,
                   planVars, loop, run>>

\* json_files with the artifact at path p written
WithArtifact(json, p, art) ==
    [q \in DOMAIN json \cup {p} |-> IF q = p THEN art ELSE json[q]]

\* the same statement with a failed dump passed over: the loop goes on to
\* the table appends with the truncated artifact
PFSaveJsonIgnoringError ==
    /\ pc = "pf_save"
    /\ \E w \in {"written", "open_raises", "dump_raises"} :
        IF w = "open_raises"
        THEN /\ json_files' = json_files
             /\ Fail(trace, "save")
        ELSE /\ json_files' = WithArtifact(json_files, CurrentJsonPath,
                                  Artifact(CurrentPdf, pf.folder.name, w = "written", run))
             /\ pc' = "pf_csv"
             /\ UNCHANGED <<pf, error_log, trace>>
    /\ UNCHANGED <<selVars, scoringVars, renameVars, startVars, pdf_dir, folder_csv, all_csv, folders, planVars, loop, run>>

\* open(json_path, "w") and json.dump: the artifact is written; or open
\* raises and nothing changes; or the dump raises after open truncated the file
PFSaveJson ==
    /\ pc = "pf_save"
    /\ \E w \in {"written", "open_raises", "dump_raises"} :
        IF w = "written"
        THEN /\ json_files' = WithArtifact(json_files, CurrentJsonPath,
                                  Artifact(CurrentPdf, pf.folder.name, TRUE, run))
             /\ pc' = "pf_csv"
             /\ UNCHANGED <<pf, error_log, trace>>
        ELSE /\ json_files' =
                    IF w = "open_raises" THEN json_files
                    ELSE WithArtifact(json_files, CurrentJsonPath,
                                  Artifact(CurrentPdf, pf.folder.name, FALSE, run))
             /\ Fail(trace, "save")
    /\ UNCHANGED <<selVars, scoringVars, renameVars, startVars, pdf_dir, folder_csv, all_csv, folders, planVars, loop, run>>

\* append_to_csv(csv_path, data, index_value=local_index)
PFAppendCsv ==
    /\ pc = "pf_csv"
    /\ \E appended \in BOOLEAN :
        IF appended
        THEN /\ folder_csv' = [folder_csv EXCEPT ![pf.folder.name] =
                    append_to_csv(@, CsvRow(CurrentPdf, pf.folder.name,
                                            extract_number_from_filename(CurrentPdf), run))]
             /\ pc' = "pf_all"
             /\ UNCHANGED <<pf, error_log, trace>>
        ELSE /\ folder_csv' = folder_csv
             /\ Fail(trace, "csv")
    /\ UNCHANGED <<selVars, scoringVars, renameVars, startVars, pdf_dir, json_files, all_csv, folders, planVars, loop, run>>

\* global_index += 1
NextGlobalIndex(g) == g + 1

\* append_to_csv(all_csv_path, data, index_value=str(global_index)), then
\* stats["success"] += 1 and global_index += 1
PFAppendAll ==
    /\ pc = "pf_all"
    /\ \E appended \in BOOLEAN :
        IF appended
        THEN /\ all_csv' = append_to_csv(all_csv,
                              CsvRow(CurrentPdf, pf.folder.name,
                                     IntToStr(pf.global_index), run))
             /\ pf' = [pf EXCEPT !.stats.success = @ + 1,
                                 !.global_index = NextGlobalIndex(@)]
             /\ pc' = "pf_wait"
             /\ trace' = Append(trace, Event("ok", pf.folder.name, CurrentPdf, ""))
             /\ UNCHANGED error_log
        ELSE /\ all_csv' = all_csv
             /\ Fail(trace, "all")
    /\ UNCHANGED <<selVars, scoringVars, renameVars, startVars, pdf_dir, json_files, folder_csv, folders, planVars, loop, run>>

\* the end of one pass of the loop: sleep when a document follows, then go
\* on with it; after the last document return stats, global_index
PFWait ==
    /\ pc = "pf_wait"
    /\ IF pf.i < Len(pf.to_process)
       THEN /\ trace' = Append(trace, Event("sleep", pf.folder.name, CurrentPdf, ""))
            /\ pf' = [pf EXCEPT !.i = @ + 1]
            /\ pc' = "pf_extract"
       ELSE /\ pc' = "pf_ret"
            /\ UNCHANGED <<pf, trace>>
    /\ UNCHANGED <<selVars, scoringVars, renameVars, startVars, fileVars, folders, planVars, loop, run>>

-----------------------------------------------------------------------------
(* Specification Spec: one run of main from scan_folders on *)

Init ==
    /\ SelIdle
    /\ ScoringIdle
    /\ RenameIdle
    /\ StartDone
    /\ InitFiles
    /\ pc = "scan"
    /\ folders = << >>
    /\ mode = ""
    /\ selected_indices = << >>
    /\ overwrite = FALSE
    /\ ui = NoUi
    /\ loop = NoLoop
    /\ pf = NoFrame
    /\ run = 1
    /\ trace = << >>

Next ==
    \/ MainScan
    \/ GetUserChoice
    \/ ConfirmRerun
    \/ GetFolderSelection
    \/ OverwriteChoice
    \/ ConfirmStart
    \/ MainAfterChoice
    \/ MainLoopContinue
    \/ MainLoopCall
    \/ MainAfterFolder
    \/ MainFinish
    \/ PFEnter
    \/ PFExtract
    \/ PFCall
    \/ PFSaveJson
    \/ PFAppendCsv
    \/ PFAppendAll
    \/ PFWait

Spec == Init /\ [][Next]_vars

-----------------------------------------------------------------------------
(* Specification SpecMain: one run of main from its first statement, on a   *)
(* project whose files and folders may be missing                          *)

\* the files a folder may hold: one document each, and in the second folder
\* a file that is none
MainFolderFiles(folder_name) ==
    IF folder_name = FolderA THEN {Pdf1Lower}
    ELSE FolderFiles(FolderB) \cup {NotesTxt}

ThemeA == <<"#", "#", " ", "A">>

MainThemeFiles == {NoThemeFile, ThemeFile(ThemeAB), ThemeFile(ThemeA)}

MainRootFiles == {{}, {StrayPdf, NotesTxt}, {StrayPdf, OtherStrayPdf}}

InitMain ==
    /\ SelIdle
    /\ ScoringIdle
    /\ RenameIdle
    /\ prompt_file \in BOOLEAN
    /\ theme_file \in MainThemeFiles
    /\ pdf_dir_exists \in BOOLEAN
    /\ root_pdfs = << >>
    /\ themes = << >>
    /\ \E present \in SUBSET FolderNames :
       \E dirs \in [FolderNames -> SUBSET (MainFolderFiles(FolderA) \cup MainFolderFiles(FolderB))] :
       \E done \in [FolderNames -> SUBSET (FolderFiles(FolderA) \cup FolderFiles(FolderB))] :
          /\ \A f \in FolderNames :
                /\ dirs[f] \subseteq MainFolderFiles(f)
                /\ done[f] \subseteq dirs[f] \cap FolderFiles(f)
                /\ f \notin present => dirs[f] = {}
          /\ ~pdf_dir_exists => present = {}
          /\ pdf_dir = [f \in present |-> dirs[f]]
          /\ json_files = PriorJson(done)
          /\ folder_csv = [f \in FolderNames |-> PriorFolderCsv(f, done)]
          /\ all_csv = PriorAllCsv(done)
          /\ error_log = << >>
    /\ root_files \in MainRootFiles
    /\ ~pdf_dir_exists => root_files = {}
    /\ pc = "check"
    /\ folders = << >>
    /\ mode = ""
    /\ selected_indices = << >>
    /\ overwrite = FALSE
    /\ ui = NoUi
    /\ loop = NoLoop
    /\ pf = NoFrame
    /\ run = 1
    /\ trace = << >>

NextMain ==
    \/ CheckRequiredFiles
    \/ SyncFolderStructure
    \/ TestApiConnection
    \/ Next

SpecMain == InitMain /\ [][NextMain]_vars

-----------------------------------------------------------------------------
(* Specification SpecFolder: process_folder called on its own, on any       *)
(* scanned folder, with either overwrite flag and any start index          *)

InitFolder ==
    /\ SelIdle
    /\ ScoringIdle
    /\ RenameIdle
    /\ StartDone
    /\ InitFiles
    /\ folders = scan_folders(pdf_dir, json_files)
    /\ mode = "direct"
    /\ selected_indices = << >>
    /\ ui = NoUi
    /\ loop = NoLoop
    /\ run = 1
    /\ trace = << >>
    /\ pc = "pf_enter"
    /\ \E k \in 1..Len(folders), ow \in BOOLEAN, start \in 1..MaxStart :
        /\ overwrite = ow
        /\ pf = [NoFrame EXCEPT !.folder = folders[k], !.overwrite = ow,
                                !.global_index_start = start]

NextFolder ==
    \/ PFEnter
    \/ PFExtract
    \/ PFCall
    \/ PFSaveJson
    \/ PFAppendCsv
    \/ PFAppendAll
    \/ PFWait

SpecFolder == InitFolder /\ [][NextFolder]_vars

-----------------------------------------------------------------------------
(* Specification SpecBatch: process_folder called on its own on one folder  *)
(* of up to three documents                                                *)

BatchFiles(folder_name) ==
    IF folder_name = FolderA THEN {Pdf1Lower, Pdf2, Pdf3} ELSE {}

InitBatch ==
    /\ SelIdle
    /\ ScoringIdle
    /\ RenameIdle
    /\ StartDone
    /\ InitFilesIn([f \in FolderNames |-> BatchFiles(f)])
    /\ folders = scan_folders(pdf_dir, json_files)
    /\ mode = "direct"
    /\ selected_indices = << >>
    /\ ui = NoUi
    /\ loop = NoLoop
    /\ run = 1
    /\ trace = << >>
    /\ pc = "pf_enter"
    /\ \E k \in 1..Len(folders), ow \in BOOLEAN, start \in 1..MaxStart :
        /\ overwrite = ow
        /\ pf = [NoFrame EXCEPT !.folder = folders[k], !.overwrite = ow,
                                !.global_index_start = start]

SpecBatch == InitBatch /\ [][NextFolder]_vars

-----------------------------------------------------------------------------
(* Specification SpecRun: one run of main from scan_folders on, over two    *)
(* folders whose documents all have artifacts of their own                 *)

RunFiles(folder_name) ==
    IF folder_name = FolderA THEN {Pdf1Lower, Pdf3} ELSE {Pdf2}

InitRun ==
    /\ SelIdle
    /\ ScoringIdle
    /\ RenameIdle
    /\ StartDone
    /\ InitFilesIn([f \in FolderNames |-> RunFiles(f)])
    /\ pc = "scan"
    /\ folders = << >>
    /\ mode = ""
    /\ selected_indices = << >>
    /\ overwrite = FALSE
    /\ ui = NoUi
    /\ loop = NoLoop
    /\ pf = NoFrame
    /\ run = 1
    /\ trace = << >>

SpecRun == InitRun /\ [][Next]_vars

-----------------------------------------------------------------------------
(* Specification SpecScan: scan_folders applied to one directory tree, with *)
(* folders that are absent, empty or hold files of any kind, files         *)
(* directly under PDF_DIR, and any set of artifacts                        *)

FolderLowerA == <<"a">>

ScanFolderNames == {FolderA, FolderB, FolderLowerA}

ScanFolderFiles == {Pdf1Upper, Pdf1Lower, NotesTxt}

ScanRootFiles == {Pdf1Upper, OtherStrayPdf, NotesTxt, DotPdf}

\* the artifact path of the two documents named 1_a, in each folder
ScanJsonPaths == {get_json_path_for_pdf(Pdf1Lower, d) : d \in ScanFolderNames}

InitScan ==
    /\ SelIdle
    /\ ScoringIdle
    /\ RenameIdle
    /\ prompt_file = TRUE
    /\ theme_file = ThemeFile(ThemeAB)
    /\ pdf_dir_exists = TRUE
    /\ root_pdfs = << >>
    /\ themes = << >>
    /\ \E present \in SUBSET ScanFolderNames :
          pdf_dir \in [present -> SUBSET ScanFolderFiles]
    /\ root_files \in SUBSET ScanRootFiles
    /\ \E paths \in SUBSET ScanJsonPaths :
          json_files = [p \in paths |-> Artifact(Pdf1Lower, p.dir, TRUE, 0)]
    /\ folder_csv = [f \in FolderNames |-> NoFile]
    /\ all_csv = NoFile
    /\ error_log = << >>
    /\ pc = "scan"
    /\ folders = << >>
    /\ mode = ""
    /\ selected_indices = << >>
    /\ overwrite = FALSE
    /\ ui = NoUi
    /\ loop = NoLoop
    /\ pf = NoFrame
    /\ run = 1
    /\ trace = << >>

NextScan == MainScan

SpecScan == InitScan /\ [][NextScan]_vars

-----------------------------------------------------------------------------
(* Specification SpecTheme: parse_theme_buckets applied to one theme file *)

ThemeChars == {"#", " ", "A", "\n"}

\* theme files with headings of one, two and three markers
ThemeExamples ==
    { <<"#", " ", "A", "\n", "#", "#", " ", "B">>,
      <<"#", "#", " ", "A", "\n", "#", "#", "#", " ", "B">>,
      <<" ", "#", " ", "A", " ", "\n", "\n", "#", " ", "B">> }

ThemeContents == StringsUpTo(ThemeChars, MaxThemeLen) \cup ThemeExamples

\* everything but the theme file at rest, the call about to be made
InitTheme ==
    /\ SelIdle
    /\ ScoringIdle
    /\ RenameIdle
    /\ pdf_dir = [f \in FolderNames |-> {}]
    /\ json_files = << >>
    /\ folder_csv = [f \in FolderNames |-> NoFile]
    /\ all_csv = NoFile
    /\ error_log = << >>
    /\ folders = << >>
    /\ mode = ""
    /\ selected_indices = << >>
    /\ overwrite = FALSE
    /\ ui = NoUi
    /\ loop = NoLoop
    /\ pf = NoFrame
    /\ run = 0
    /\ trace = << >>
    /\ prompt_file = TRUE
    /\ pdf_dir_exists = TRUE
    /\ root_files = {}
    /\ root_pdfs = << >>
    /\ \E c \in ThemeContents : theme_file = ThemeFile(c)
    /\ themes = << >>
    /\ pc = "parse_themes"

ParseThemeBuckets ==
    /\ pc = "parse_themes"
    /\ themes' = parse_theme_buckets(theme_file.content)
    /\ pc' = "parsed"
    /\ UNCHANGED <<selVars, scoringVars, renameVars, fileVars, folders, planVars, loop, pf, run, trace>>
    /\ UNCHANGED <<prompt_file, theme_file, pdf_dir_exists, root_files, root_pdfs>>

NextTheme == ParseThemeBuckets

SpecTheme == InitTheme /\ [][NextTheme]_vars

-----------------------------------------------------------------------------
(* Everything of auto_runner.py at rest *)

RunnerIdle == SelIdle /\ MainRest /\ StartIdle

-----------------------------------------------------------------------------
(* Specification SpecLevel: score_to_level applied to one score *)

\* the scores n / 20 from -1 to MaxScore: every tenth and every half tenth
LevelScores ==
    {Decimal(1, n, 2) : n \in {5 * k : k \in 0..(20 * MaxScore)}}
        \cup {Decimal(-1, n, 2) : n \in {5 * k : k \in 1..20}}

InitLevel ==
    /\ RunnerIdle
    /\ RenameIdle
    /\ CalcIdle
    /\ RescoreIdle
    /\ score \in LevelScores
    /\ level = << >>
    /\ pc = "score_to_level"

ScoreToLevel ==
    /\ pc = "score_to_level"
    /\ level' = score_to_level(FloatOfDecimal(score))
    /\ pc' = "returned"
    /\ UNCHANGED <<selVars, fileVars, folders, planVars, loop, pf, run, trace, startVars, renameVars>>
    /\ UNCHANGED <<score, calcVars, rescoreVars>>

NextLevel == ScoreToLevel

SpecLevel == InitLevel /\ [][NextLevel]_vars

-----------------------------------------------------------------------------
(* Specification SpecCalc: calculate_scenario_score applied to one paper   *)
(* and one weight vector                                                   *)

\* the scores a dimension takes
CalcScores == {Decimal(1, 0, 0), Decimal(1, 5, 0), Decimal(1, 75, 1), Decimal(1, 9, 0)}

Scores5(a, b, c, d, e) ==
    [rigor |-> a, innovation |-> b, practicality |-> c, impact |-> d, readability |-> e]

\* the paper and the weights of the documented example
ExamplePaper ==
    Scores5(Decimal(1, 8, 0), Decimal(1, 9, 0), Decimal(1, 7, 0), Decimal(1, 6, 0),
            Decimal(1, 5, 0))

ExampleWeights ==
    Scores5(Decimal(1, 3, 1), Decimal(1, 25, 2), Decimal(1, 25, 2), Decimal(1, 15, 2),
            Decimal(1, 5, 2))

\* weight vectors that add up to 1, to less and to more
CalcWeights ==
    { ExampleWeights,
      Scores5(Decimal(1, 2, 1), Decimal(1, 2, 1), Decimal(1, 2, 1), Decimal(1, 2, 1),
              Decimal(1, 2, 1)),
      Scores5(Decimal(1, 35, 2), Decimal(1, 0, 0), Decimal(1, 0, 0), Decimal(1, 0, 0),
              Decimal(1, 0, 0)),
      Scores5(Decimal(1, 1, 1), Decimal(1, 1, 1), Decimal(1, 1, 1), Decimal(1, 1, 1),
              Decimal(1, 15, 2)),
      Scores5(Decimal(1, 5, 1), Decimal(1, 5, 1), Decimal(1, 5, 1), Decimal(1, 25, 2),
              Decimal(1, 25, 2)) }

CalcPapers ==
    {Scores5(a, b, c, d, e) : a \in CalcScores \cup {Decimal(1, 1, 0)},
                              b \in CalcScores, c \in CalcScores,
                              d \in {Decimal(1, 0, 0), Decimal(1, 6, 0)},
                              e \in {Decimal(1, 5, 0), Decimal(1, 85, 1)}}
        \cup {ExamplePaper}

InitCalc ==
    /\ RunnerIdle
    /\ RenameIdle
    /\ LevelIdle
    /\ RescoreIdle
    /\ paper \in CalcPapers
    /\ weights \in CalcWeights
    /\ scenario_score = [scenario_name |-> "", overall_score |-> FloatZero, level |-> << >>]
    /\ pc = "calculate_scenario_score"

CalculateScenarioScore ==
    /\ pc = "calculate_scenario_score"
    /\ scenario_score' = calculate_scenario_score(Floats(paper), Floats(weights))
    /\ pc' = "returned"
    /\ UNCHANGED <<selVars, fileVars, folders, planVars, loop, pf, run, trace, startVars, renameVars>>
    /\ UNCHANGED <<paper, weights, levelVars, rescoreVars>>

NextCalc == CalculateScenarioScore

SpecCalc == InitCalc /\ [][NextCalc]_vars

-----------------------------------------------------------------------------
(* scenario_rescoring.py main: the P0 table is loaded, the comparison      *)
(* table and the ranking tables are written (specification SpecRescore)    *)

\* one row of _all_papers.csv: the cells load_p0_csv reads
P0Row(i, t, a, b, c, d, e, o, l) ==
    [index |-> i, title |-> t, rigor |-> a, innovation |-> b, practicality |-> c,
     impact |-> d, readability |-> e, overall |-> o, level |-> l]

\* the kinds of row: the documented example; one that ties with it when
\* every weight is 0.2; the best scores; an empty cell; a cell that is no
\* number; a total that is no number; cells with blanks and a fraction
RowKinds ==
    << P0Row(<<"1">>, <<"a">>, <<"8">>, <<"9">>, <<"7">>, <<"6">>, <<"5">>,
             <<"7", ".", "6">>, Stars(4)),
       P0Row(<<"2">>, <<"b">>, <<"5">>, <<"6">>, <<"7">>, <<"9">>, <<"8">>,
             <<"7">>, Stars(3)),
       P0Row(<<"3">>, <<"c">>, <<"9">>, <<"9">>, <<"9">>, <<"9">>, <<"9">>,
             <<"9">>, Stars(5)),
       P0Row(<<"4">>, <<"d">>, << >>, <<"9">>, <<"7">>, <<"6">>, <<"5">>,
             <<"5", ".", "4">>, Stars(2)),
       P0Row(<<"5">>, <<"e">>, <<"x">>, <<"9">>, <<"7">>, <<"6">>, <<"5">>,
             <<"7", ".", "6">>, Stars(4)),
       P0Row(<<"6">>, <<"f">>, <<"8">>, <<"9">>, <<"7">>, <<"6">>, <<"5">>,
             <<"x">>, Stars(4)),
       P0Row(<<"7", " ">>, <<"g", " ">>, <<" ", "8", " ">>, <<"9", ".", "5">>, <<"7">>,
             <<"6">>, <<"-", "5">>, << >>, << >>) >>

\* the row of a kind at a position of the table: its index column is the
\* position, followed by what the kind has there
RowAt(i, kind) == [RowKinds[kind] EXCEPT !.index = IntToStr(i) \o Tail(@)]

RowsOfKinds(kinds) == [i \in DOMAIN kinds |-> RowAt(i, kinds[i])]

RECURSIVE SeqsUpTo(_, _)
SeqsUpTo(S, n) ==
    IF n = 0 THEN {<< >>}
    ELSE LET shorter == SeqsUpTo(S, n - 1)
         IN  shorter \cup {Append(q, x) : q \in {r \in shorter : Len(r) = n - 1}, x \in S}

\* a long table: the first three kinds in turn, or with the rows that are
\* skipped among them
LongKinds(n, period) == [i \in 1..n |-> ((i - 1) % period) + 1]

P0Tables ==
    {RowsOfKinds(kinds) : kinds \in SeqsUpTo(DOMAIN RowKinds, MaxShortRows)}
        \cup {RowsOfKinds(LongKinds(n, period)) :
                 n \in (MaxRankRows - 2)..MaxRankRows, period \in {3, Len(RowKinds)}}

BalancedWeights ==
    Scores5(Decimal(1, 2, 1), Decimal(1, 2, 1), Decimal(1, 2, 1), Decimal(1, 2, 1),
            Decimal(1, 2, 1))

\* scenario_weights.json: no scenario, or two
WeightConfigs ==
    { [exists |-> TRUE, scenarios |-> << >>],
      [exists |-> TRUE,
       scenarios |-> << [name |-> "applied", weights |-> ExampleWeights],
                        [name |-> "balanced", weights |-> BalancedWeights] >>] }

InitRescore ==
    /\ RunnerIdle
    /\ RenameIdle
    /\ LevelIdle
    /\ CalcIdle
    /\ p0_csv \in {NoFile} \cup {[exists |-> TRUE, rows |-> rows] : rows \in P0Tables}
    /\ config \in {NoConfig} \cup WeightConfigs
    /\ papers = << >>
    /\ warnings = << >>
    /\ comparison = NoFile
    /\ rankings = << >>
    /\ pc = "rs_check"

\* main: without the P0 table or the weights it returns at once
RescoreCheck ==
    /\ pc = "rs_check"
    /\ pc' = IF p0_csv.exists /\ config.exists THEN "rs_load" ELSE "rs_aborted"
    /\ UNCHANGED <<selVars, fileVars, folders, planVars, loop, pf, run, trace, startVars, renameVars>>
    /\ UNCHANGED <<levelVars, calcVars, rescoreVars>>

RescoreLoad ==
    /\ pc = "rs_load"
    /\ papers' = load_p0_csv(p0_csv.rows)
    /\ warnings' = SkippedRows(p0_csv.rows)
    /\ pc' = "rs_compare"
    /\ UNCHANGED <<selVars, fileVars, folders, planVars, loop, pf, run, trace, startVars, renameVars>>
    /\ UNCHANGED <<levelVars, calcVars, p0_csv, config, comparison, rankings>>

RescoreCompare ==
    /\ pc = "rs_compare"
    /\ comparison' = create_comparison_table(papers, config.scenarios)
    /\ pc' = "rs_rank"
    /\ UNCHANGED <<selVars, fileVars, folders, planVars, loop, pf, run, trace, startVars, renameVars>>
    /\ UNCHANGED <<levelVars, calcVars, p0_csv, config, papers, warnings, rankings>>

\* create_scenario_ranking_tables, then print_summary
RescoreRank ==
    /\ pc = "rs_rank"
    /\ rankings' = RankingTables(papers, config.scenarios)
    /\ pc' = IF papers = << >> /\ config.scenarios # << >> THEN "rs_crashed" ELSE "rs_done"
    /\ UNCHANGED <<selVars, fileVars, folders, planVars, loop, pf, run, trace, startVars, renameVars>>
    /\ UNCHANGED <<levelVars, calcVars, p0_csv, config, papers, warnings, comparison>>

NextRescore == RescoreCheck \/ RescoreLoad \/ RescoreCompare \/ RescoreRank

SpecRescore == InitRescore /\ [][NextRescore]_vars

-----------------------------------------------------------------------------
(* rename_pdfs.py: rename_pdfs_in_folder called on one folder, twice       *)
(* (specification SpecRename)                                              *)

\* extract_current_number: the value of the leading digits when an
\* underscore or a hyphen follows them, otherwise 0
extract_current_number(filename) ==
    DecimalValue(extract_number_from_filename(filename))

\* folder_path.glob("*.pdf"): the names that end with .pdf as written
GlobPdf(files) == {f \in DOMAIN files : EndsWith(f, <<".", "p", "d", "f">>)}

RECURSIVE MaxOf(_)
MaxOf(S) ==
    IF S = {} THEN 0
    ELSE LET x == CHOOSE y \in S : TRUE
             m == MaxOf(S \ {x})
         IN  IF x > m THEN x ELSE m

\* get_max_number_in_folder
get_max_number_in_folder(files) ==
    MaxOf({extract_current_number(f) : f \in GlobPdf(files)})

\* the files get_unnumbered_pdfs lists
UnnumberedPdfs(files) == {f \in GlobPdf(files) : extract_current_number(f) = 0}

\* get_unnumbered_pdfs: the unnumbered files by modification time; files of
\* equal time stay in the order glob gave them, which is any order
RECURSIVE OrdersByMtime(_, _)
OrdersByMtime(files, S) ==
    IF S = {} THEN {<< >>}
    ELSE UNION { {<<x>> \o rest : rest \in OrdersByMtime(files, S \ {x})} :
                 x \in {y \in S : \A z \in S : files[y] <= files[z]} }

get_unnumbered_pdfs(files) == OrdersByMtime(files, UnnumberedPdfs(files))

\* the format 02d
TwoDigits(n) == IF n < 10 THEN <<"0">> \o IntToStr(n) ELSE IntToStr(n)

\* the name given to a file at a number
NewName(n, file) == TwoDigits(n) \o <<"_">> \o Stem(file) \o <<".", "p", "d", "f">>

\* file.rename(new_path): the file keeps its modification time
Renamed(files, old, new) ==
    [f \in (DOMAIN files \ {old}) \cup {new} |-> IF f = new THEN files[old] ELSE files[f]]

\* the loop of rename_pdfs_in_folder: every file takes the next number; it
\* is renamed unless a file of the new name exists
RECURSIVE RenameLoop(_, _, _, _)
RenameLoop(files, unnumbered, max_number, rename_count) ==
    IF unnumbered = << >> THEN [files |-> files, rename_count |-> rename_count]
    ELSE LET new_name == NewName(max_number + 1, Head(unnumbered))
         IN  IF new_name \in DOMAIN files
             THEN RenameLoop(files, Tail(unnumbered), max_number + 1, rename_count)
             ELSE RenameLoop(Renamed(files, Head(unnumbered), new_name),
                             Tail(unnumbered), max_number + 1, rename_count + 1)

\* rename_pdfs_in_folder on the files of a folder, listed in the order given
rename_pdfs_in_folder(files, unnumbered) ==
    RenameLoop(files, unnumbered, get_max_number_in_folder(files), 0)

\* the folder that is renumbered and another one beside it
InboxFolder == "inbox"

OtherFolder == "other"

RenameNames ==
    { <<"a", ".", "p", "d", "f">>,
      <<"b", ".", "p", "d", "f">>,
      <<"1", "a", ".", "p", "d", "f">>,
      <<"a", ".", "b", ".", "p", "d", "f">>,
      <<"0", "1", "_", "a", ".", "p", "d", "f">>,
      <<"0", "3", "_", "b", ".", "p", "d", "f">>,
      <<"2", "-", "a", ".", "p", "d", "f">>,
      <<"1", "0", "_", "b", ".", "p", "d", "f">>,
      <<"0", "0", "_", "a", ".", "p", "d", "f">>,
      <<"0", "-", "b", ".", "p", "d", "f">>,
      <<"n", ".", "t", "x", "t">>,
      <<"0", "4", "_", "n", ".", "t", "x", "t">> }

OtherFiles == (<<"0", "7", "_", "z", ".", "p", "d", "f">> :> 1) @@ (<<"y", ".", "p", "d", "f">> :> 2)

RenameFolders ==
    UNION { [names -> 1..MaxMtime] :
            names \in {S \in SUBSET RenameNames : Cardinality(S) <= MaxFiles} }

InitRename ==
    /\ RunnerIdle
    /\ ScoringIdle
    /\ inbox \in {[f \in {InboxFolder, OtherFolder} |->
                       IF f = InboxFolder THEN files ELSE OtherFiles] :
                   files \in RenameFolders}
    /\ rename_counts = << >>
    /\ pc = "rename_1"

\* one call of rename_pdfs_in_folder on the folder
RenamePdfsInFolder ==
    /\ pc \in {"rename_1", "rename_2"}
    /\ \E unnumbered \in get_unnumbered_pdfs(inbox[InboxFolder]) :
          LET done == rename_pdfs_in_folder(inbox[InboxFolder], unnumbered)
          IN  /\ inbox' = [inbox EXCEPT ![InboxFolder] = done.files]
              /\ rename_counts' = Append(rename_counts, done.rename_count)
    /\ pc' = IF pc = "rename_1" THEN "rename_2" ELSE "renamed"
    /\ UNCHANGED <<selVars, fileVars, folders, planVars, loop, pf, run, trace, startVars>>
    /\ UNCHANGED scoringVars

NextRename == RenamePdfsInFolder

SpecRename == InitRename /\ [][NextRename]_vars

-----------------------------------------------------------------------------
(* Selector inputs *)

SelChars == {"0", "1", "2", "-", ",", " ", "+", "x"}

\* the selectors quoted in the documentation, with the folder count they
\* are quoted for
SelExamples ==
    { [sel |-> <<"1", ",", "3", "-", "5", ",", "7">>, n |-> 10],
      [sel |-> <<"1", ",", " ", "3">>, n |-> 10],
      [sel |-> <<"0">>, n |-> 5],
      [sel |-> <<"3", "-", "2">>, n |-> 5],
      [sel |-> <<"1", " ", "1">>, n |-> 11] }

SelInputs ==
    {[sel |-> s, n |-> m] : s \in StringsUpTo(SelChars, MaxSelLen), m \in 1..MaxNum}
        \cup SelExamples

-----------------------------------------------------------------------------
(* Specification SpecSel: parse_selection applied to one input *)

InitSel ==
    /\ MainIdle
    /\ StartIdle
    /\ ScoringIdle
    /\ RenameIdle
    /\ \E inp \in SelInputs : selection = inp.sel /\ max_num = inp.n
    /\ sel_pc = "call"
    /\ sel_result = [ok |-> TRUE, indices |-> << >>]

ParseSelection ==
    /\ sel_pc = "call"
    /\ sel_pc' = "done"
    /\ sel_result' = parse_selection(selection, max_num)
    /\ UNCHANGED <<selection, max_num>>
    /\ UNCHANGED <<fileVars, mainVars, startVars, scoringVars, renameVars>>

NextSel == ParseSelection

SpecSel == InitSel /\ [][NextSel]_vars

-----------------------------------------------------------------------------
(* The selector grammar, as documented: comma-separated tokens, each a     *)
(* 1-based integer in [1,N] or an inclusive range a-b with 1 <= a <= b <= N, *)
(* white space around a token ignored.                                     *)

IsNumeral(t) == t # << >> /\ \A i \in 1..Len(t) : t[i] \in Digits

\* the positions a token selects; the empty set when the token is malformed
TokenPositions(tok, n) ==
    LET t == Strip(tok)
        dash == {i \in 1..Len(t) : t[i] = "-"}
    IN  IF IsNumeral(t)
        THEN {k \in 1..n : k = DecimalValue(t)}
        ELSE IF Cardinality(dash) = 1
        THEN LET d == CHOOSE i \in dash : TRUE
                 a == SubSeq(t, 1, d - 1)
                 b == SubSeq(t, d + 1, Len(t))
             IN  IF IsNumeral(a) /\ IsNumeral(b)
                    /\ 1 <= DecimalValue(a) /\ DecimalValue(a) <= DecimalValue(b)
                    /\ DecimalValue(b) <= n
                 THEN DecimalValue(a)..DecimalValue(b)
                 ELSE {}
        ELSE {}

SelectorTokens(sel) == Split(sel, ",")

MalformedTokens(sel, n) ==
    {i \in 1..Len(SelectorTokens(sel)) : TokenPositions(SelectorTokens(sel)[i], n) = {}}

WellFormedSelector(sel, n) == MalformedTokens(sel, n) = {}

SelectedPositions(sel, n) ==
    UNION {TokenPositions(SelectorTokens(sel)[i], n) : i \in 1..Len(SelectorTokens(sel))}

StrictlyIncreasing(q) == \A i \in 1..(Len(q) - 1) : q[i] < q[i + 1]

SeqRange(q) == {q[i] : i \in 1..Len(q)}

-----------------------------------------------------------------------------
(* Claims about parse_selection (specification SpecSel) *)

\* C7: on a well-formed selector parse_selection returns exactly the selected
\* positions as a strictly increasing sequence of 0-based indices, duplicates
\* and overlapping ranges collapsed; "1,3-5,7" with N=10 gives [0,2,3,4,6]
\* and "1, 3" gives [0,2].
C7_WellFormedSelection ==
    (sel_pc = "done" /\ WellFormedSelector(selection, max_num)) =>
        /\ sel_result.ok
        /\ StrictlyIncreasing(sel_result.indices)
        /\ SeqRange(sel_result.indices) = {p - 1 : p \in SelectedPositions(selection, max_num)}
        /\ (selection = <<"1", ",", "3", "-", "5", ",", "7">> /\ max_num = 10)
               => sel_result.indices = <<0, 2, 3, 4, 6>>
        /\ selection = <<"1", ",", " ", "3">> => sel_result.indices = <<0, 2>>

\* C7 witness: the documented mixed selector has been parsed.
C7_Witness ==
    /\ sel_pc = "done"
    /\ selection = <<"1", ",", "3", "-", "5", ",", "7">>
    /\ max_num = 10
    /\ sel_result.ok
    /\ sel_result.indices = <<0, 2, 3, 4, 6>>

\* C8: whenever some comma-separated token is not a single integer in [1,N]
\* nor a range a-b with 1 <= a <= b <= N, parse_selection raises a validation
\* error naming an offending token and returns no indices.
C8_MalformedRejected ==
    (sel_pc = "done" /\ ~WellFormedSelector(selection, max_num)) =>
        /\ ~sel_result.ok
        /\ \E i \in MalformedTokens(selection, max_num) :
               sel_result.token = RemoveChar(SelectorTokens(selection)[i], " ")

-----------------------------------------------------------------------------
(* Claims about process_folder and main *)

\* the statements of process_folder
PfPcs == {"pf_enter", "pf_extract", "pf_call", "pf_save", "pf_csv", "pf_all",
          "pf_wait", "pf_ret"}

\* the rows this run appended to the combined table, in order
RunRows == SelectSeq(all_csv.rows, LAMBDA r : r.run = run)

\* the documents this run persisted successfully, in order
OkEvents == SelectSeq(trace, LAMBDA ev : ev.e = "ok")

\* the successes counted so far over the whole run
SuccessCount == loop.total_stats.success + pf.stats.success

\* C1: in one run of main the global index written to the combined table for
\* the k-th successfully persisted document of the run is k, whatever was
\* skipped or failed before it and across folder boundaries.
C1_GlobalIndexIsSuccessRank ==
    /\ Len(RunRows) = SuccessCount
    /\ Len(OkEvents) = SuccessCount
    /\ \A k \in 1..Len(RunRows) :
          /\ RunRows[k].index = IntToStr(k)
          /\ RunRows[k].file = OkEvents[k].file
          /\ RunRows[k].source_folder = OkEvents[k].folder

\* C1 witness: a run over both folders ended with a failure in the first
\* folder and a success in each folder.
C1_Witness ==
    /\ pc = "done"
    /\ Len(RunRows) = 2
    /\ RunRows[1].source_folder = FolderA
    /\ RunRows[2].source_folder = FolderB
    /\ RunRows[2].index = <<"2">>
    /\ loop.total_stats.fail = 1

\* every document of the folder has its artifact
AllHaveArtifacts(folder) ==
    \A i \in 1..Len(folder.pdf_files) :
        get_json_path_for_pdf(folder.pdf_files[i], folder.name) \in DOMAIN json_files

\* C2: process_folder with overwrite = false on a folder whose documents all
\* have an artifact makes no inference call, writes no artifact, appends no
\* row to either table, reports skip = number of documents with
\* success = fail = 0 and returns the global index it was given.
C2_ResumeIdempotent ==
    [][(pc = "pf_enter" /\ ~pf.overwrite /\ AllHaveArtifacts(pf.folder)) =>
          /\ pc' = "pf_ret"
          /\ trace' = trace
          /\ json_files' = json_files
          /\ error_log' = error_log
          /\ \A f \in FolderNames : folder_csv'[f].rows = folder_csv[f].rows
          /\ all_csv'.rows = all_csv.rows
          /\ pf'.stats = [success |-> 0, skip |-> Len(pf.folder.pdf_files), fail |-> 0]
          /\ pf'.global_index = pf.global_index_start]_vars

\* C2 witness: such a call on a folder of two documents has returned.
C2_Witness ==
    /\ pc = "pf_ret"
    /\ ~pf.overwrite
    /\ Len(pf.folder.pdf_files) = 2
    /\ pf.stats = [success |-> 0, skip |-> 2, fail |-> 0]
    /\ pf.global_index_start = 2
    /\ pf.global_index = 2
    /\ trace = << >>

\* C3: with overwrite = false a document whose artifact exists when its turn
\* is reached is skipped: it is counted in stats.skip, no inference call is
\* made for it and no existing artifact is rewritten, also when its artifact
\* path is that of a document processed earlier in the same call.
C3_ExistingArtifactSkipped ==
    [][(pc \in PfPcs /\ ~pf.overwrite) =>
          /\ pc = "pf_enter" =>
                pf'.stats.skip = Cardinality({i \in 1..Len(pf.folder.pdf_files) :
                    get_json_path_for_pdf(pf.folder.pdf_files[i], pf.folder.name)
                        \in DOMAIN json_files})
          /\ pc = "pf_call" => CurrentJsonPath \notin DOMAIN json_files
          /\ \A q \in DOMAIN json_files :
                q \in DOMAIN json_files' /\ json_files'[q] = json_files[q]]_vars

\* a step of the inference call that ends in a JSON parse failure
ParseFailureStep ==
    /\ pc = "pf_call"
    /\ \E k \in (Len(trace) + 1)..Len(trace') :
          trace'[k].e = "fail" /\ trace'[k].why = "parse"

\* C4: when the response is not valid JSON after fence stripping, the
\* document fails: stats.fail grows by one, one error-log line naming the
\* document is appended, no artifact is created or modified, no row is
\* appended to either table and the global index is not advanced.
C4_ParseFailureOutcome ==
    [][ParseFailureStep =>
          /\ pf'.stats = [pf.stats EXCEPT !.fail = @ + 1]
          /\ error_log' = Append(error_log, CurrentPdf)
          /\ json_files' = json_files
          /\ folder_csv' = folder_csv
          /\ all_csv' = all_csv
          /\ pf'.global_index = pf.global_index]_vars

\* the documents of the running call whose processing started, in order
Attempted ==
    LET evs == SelectSeq(trace, LAMBDA ev : ev.e = "doc" /\ ev.folder = pf.folder.name)
    IN  [k \in 1..Len(evs) |-> evs[k].file]

\* the number of inference calls made for a document of the running call
InferenceCalls(file) ==
    Len(SelectSeq(trace, LAMBDA ev :
            ev.e = "llm" /\ ev.folder = pf.folder.name /\ ev.file = file))

\* C5: in process_folder every eligible document is attempted exactly once,
\* in list order, whatever the outcomes before it; no failure on a document
\* stops the later ones or causes a second inference call, and the call
\* always ends by returning stats.
C5_FailureIsolation ==
    /\ pc # "crashed"
    /\ pc \in {"pf_call", "pf_save", "pf_csv", "pf_all", "pf_wait"} =>
          Attempted = SubSeq(pf.to_process, 1, pf.i)
    /\ pc = "pf_extract" => Attempted = SubSeq(pf.to_process, 1, pf.i - 1)
    /\ pc = "pf_ret" => Attempted = pf.to_process
    /\ pc \in PfPcs =>
          \A k \in 1..Len(pf.to_process) : InferenceCalls(pf.to_process[k]) <= 1

\* a step in which one of the two table appends raises
AppendFailureStep ==
    /\ pc \in {"pf_csv", "pf_all"}
    /\ \E k \in (Len(trace) + 1)..Len(trace') : trace'[k].e = "fail"

\* the artifact of the current document, written completely in this run
CurrentArtifactWritten ==
    /\ CurrentJsonPath \in DOMAIN json_files
    /\ json_files[CurrentJsonPath] = Artifact(CurrentPdf, pf.folder.name, TRUE, run)

\* C6: a row is appended to the folder table and to the combined table only
\* after the response has parsed and the artifact has been written in the
\* same run, the folder-table append first; when either append fails the
\* document fails (no success, global index not advanced) and the artifact
\* stays on disk.
C6_PersistenceOrdering ==
    [][/\ \A f \in FolderNames :
            Len(folder_csv'[f].rows) > Len(folder_csv[f].rows) =>
                /\ pc = "pf_csv"
                /\ f = pf.folder.name
                /\ trace[Len(trace)] = Event("llm", f, CurrentPdf, "")
                /\ CurrentArtifactWritten
                /\ all_csv' = all_csv
       /\ Len(all_csv'.rows) > Len(all_csv.rows) =>
                /\ pc = "pf_all"
                /\ CurrentArtifactWritten
                /\ folder_csv[pf.folder.name].rows # << >>
                /\ LET rows == folder_csv[pf.folder.name].rows
                   IN  rows[Len(rows)].file = CurrentPdf /\ rows[Len(rows)].run = run
       /\ AppendFailureStep =>
                /\ pf'.stats = [pf.stats EXCEPT !.fail = @ + 1]
                /\ pf'.global_index = pf.global_index
                /\ json_files' = json_files
                /\ CurrentArtifactWritten]_vars

\* C6 witness: the combined-table append of a document failed after its
\* artifact and its folder row were written.
C6_Witness ==
    /\ pc = "pf_wait"
    /\ trace[Len(trace) - 1] = Event("fail", pf.folder.name, CurrentPdf, "all")
    /\ CurrentArtifactWritten
    /\ pf.stats.success = 0
    /\ pf.stats.fail = 1
    /\ \E k \in 1..Len(folder_csv[pf.folder.name].rows) :
          /\ folder_csv[pf.folder.name].rows[k].file = CurrentPdf
          /\ folder_csv[pf.folder.name].rows[k].run = run
    /\ RunRows = << >>

\* the all-pending intent: the last menu answer was A
AllPendingChosen == Upper(Strip(ui.choice)) = <<"A">>

\* the plan of the all-pending intent
AllPendingPlan ==
    IF \E j \in 1..Len(folders) : folders[j].pending > 0
    THEN /\ mode = "all"
         /\ overwrite = FALSE
         /\ StrictlyIncreasing(selected_indices)
         /\ SeqRange(selected_indices) =
                {j - 1 : j \in {k \in 1..Len(folders) : folders[k].pending > 0}}
    ELSE mode = "quit" /\ selected_indices = << >>

\* C9: the all-pending intent resolves to exactly the indices of the folders
\* with pending > 0, ascending, with overwrite = false; with no such folder
\* the planner returns quit and the run stops without calling
\* process_folder, making an inference call or writing an artifact or table.
C9_AllPending ==
    [][/\ pc' = "planned" /\ AllPendingChosen' => AllPendingPlan'
       /\ mode = "quit" =>
             /\ pc' = "done"
             /\ UNCHANGED <<fileVars, trace, pf>>]_vars

\* C9 witness: all-pending was chosen with two folders listed, the first of
\* which has nothing pending; only the second is planned.
C9_Witness ==
    /\ pc = "planned"
    /\ AllPendingChosen
    /\ Len(folders) = 2
    /\ folders[1].pending = 0
    /\ mode = "all"
    /\ selected_indices = <<1>>

\* an affirmative answer to a yes/no prompt
Affirmative(answer) == Lower(Strip(answer)) \in {<<"y">>, <<"y", "e", "s">>}

\* the answer that picks option O of the skip-or-overwrite prompt
PickedOverwrite(answer) == Strip(answer) \in {<<"O">>, <<"o">>}

\* C10: overwrite is only enabled by an explicit decision for the whole
\* selection: the all-overwrite plan (every folder with total > 0) only after
\* an affirmative confirmation, an explicit-subset plan only if a selected
\* folder has processed > 0 and overwrite-existing was chosen; and the one
\* flag reaches every document of every selected folder.
C10_OverwriteExplicit ==
    /\ (pc = "planned" /\ overwrite) =>
          \/ /\ mode = "all"
             /\ Affirmative(ui.confirm)
             /\ SeqRange(selected_indices) =
                    {j - 1 : j \in {k \in 1..Len(folders) : folders[k].total_pdfs > 0}}
          \/ /\ mode = "select"
             /\ \E k \in 1..Len(selected_indices) :
                    folders[selected_indices[k] + 1].processed > 0
             /\ PickedOverwrite(ui.ow_choice)
    /\ pc \in PfPcs => pf.overwrite = overwrite
    /\ (pc \in PfPcs \ {"pf_enter"} /\ overwrite) => pf.to_process = pf.folder.pdf_files
    /\ (pc = "done" /\ overwrite /\ mode # "quit") =>
          \A k \in 1..Len(selected_indices) :
              \A i \in 1..Len(folders[selected_indices[k] + 1].pdf_files) :
                  \E j \in 1..Len(trace) :
                      /\ trace[j].e = "doc"
                      /\ trace[j].folder = folders[selected_indices[k] + 1].name
                      /\ trace[j].file = folders[selected_indices[k] + 1].pdf_files[i]

\* C10 witness: an explicit subset with processed documents was planned with
\* overwrite after the user picked overwrite-existing.
C10_Witness ==
    /\ pc = "planned"
    /\ mode = "select"
    /\ overwrite
    /\ ui.ow_choice = <<"o">>
    /\ \E k \in 1..Len(selected_indices) :
          folders[selected_indices[k] + 1].processed > 0

-----------------------------------------------------------------------------
(* C18: the counts of a FolderStatus *)

\* the scan has returned
Scanned == pc \notin {"idle", "check", "sync", "api", "scan", "aborted"}

\* the documents of the list whose same-stem artifact exists in the
\* directory of the output root that is named after the bucket
DocsWithArtifact(f) ==
    {i \in 1..Len(f.pdf_files) :
        \E p \in DOMAIN json_files :
            /\ p.dir = f.name
            /\ p.name = Stem(f.pdf_files[i]) \o <<".", "j", "s", "o", "n">>}

\* C18: every FolderStatus scan_folders returns has total = length of its
\* document list > 0, processed = the number of its documents whose
\* same-stem artifact exists in the output directory of the bucket, and
\* pending = total - processed, so that both counts are at least 0 and add
\* up to total.
C18_FolderStatusCounts ==
    Scanned =>
        \A k \in 1..Len(folders) :
            LET f == folders[k]
            IN  /\ f.total_pdfs = Len(f.pdf_files)
                /\ f.total_pdfs > 0
                /\ f.processed = Cardinality(DocsWithArtifact(f))
                /\ f.pending = f.total_pdfs - f.processed
                /\ f.processed >= 0
                /\ f.pending >= 0
                /\ f.processed + f.pending = f.total_pdfs

\* a scan that returned a folder with two documents sharing one artifact
\* (both processed) next to a folder with a pending document
C18_Witness ==
    /\ Scanned
    /\ \E k \in 1..Len(folders) : folders[k].processed = 2 /\ folders[k].pending = 0
    /\ \E k \in 1..Len(folders) : folders[k].processed = 0 /\ folders[k].pending > 0

-----------------------------------------------------------------------------
(* C11: what scan_folders returns *)

\* a document: a file whose name ends in .pdf, in any letter case, after a
\* non-empty stem
IsDocument(name) ==
    /\ Len(name) > 4
    /\ Lower(SubSeq(name, Len(name) - 3, Len(name))) = <<".", "p", "d", "f">>

\* the directories directly under the root that hold a document
BucketsWithDocuments == {d \in DOMAIN pdf_dir : \E f \in pdf_dir[d] : IsDocument(f)}

\* the buckets are sorted by name and are exactly the directories that hold
\* a document
BucketsAsScanned ==
    /\ \A i, j \in 1..Len(folders) : i < j => StrLess(folders[i].name, folders[j].name)
    /\ {folders[k].name : k \in 1..Len(folders)} = BucketsWithDocuments

\* every listed document is a file of its own bucket directory, and every
\* document the run touched is one: a file directly under the root is in no
\* list and is never processed
StraysLeftAlone ==
    /\ \A k \in 1..Len(folders) : \A i \in 1..Len(folders[k].pdf_files) :
          /\ folders[k].name \in DOMAIN pdf_dir
          /\ folders[k].pdf_files[i] \in pdf_dir[folders[k].name]
          /\ folders[k].pdf_files[i] \notin root_files
    /\ \A i \in 1..Len(trace) :
          trace[i].e # "api_test" =>
              /\ trace[i].folder \in DOMAIN pdf_dir
              /\ trace[i].file \in pdf_dir[trace[i].folder]
              /\ trace[i].file \notin root_files

\* C11 as stated: scan_folders returns the buckets sorted by name, exactly
\* the directories under the root that hold a document, and reports every
\* non-directory entry directly under the root as a stray document; a stray
\* document is in no document list and is never processed.
C11_EveryRootEntryReported ==
    Scanned =>
        /\ BucketsAsScanned
        /\ SeqRange(root_pdfs) = root_files
        /\ StraysLeftAlone

\* C11 as amended: scan_folders returns the buckets sorted by name, exactly
\* the directories under the root that hold a document, and reports as stray
\* documents exactly the files directly under the root whose suffix is .pdf
\* in any letter case (other files there are not reported); a stray document
\* is in no document list and is never processed.
C11_RootDocumentsReported ==
    Scanned =>
        /\ BucketsAsScanned
        /\ SeqRange(root_pdfs) = {f \in root_files : IsDocument(f)}
        /\ Len(root_pdfs) = Cardinality(SeqRange(root_pdfs))
        /\ StraysLeftAlone

\* a run that reported the stray document, listed one bucket and left out a
\* directory holding only a file that is no document, and then processed a
\* document of the bucket
C11_Witness ==
    /\ Scanned
    /\ root_pdfs = <<StrayPdf>>
    /\ NotesTxt \in root_files
    /\ Len(folders) = 1
    /\ FolderB \in DOMAIN pdf_dir /\ pdf_dir[FolderB] = {NotesTxt}
    /\ \E i \in 1..Len(trace) : trace[i].e = "ok"

-----------------------------------------------------------------------------
(* C13: missing configuration *)

\* the prompt template or the bucket-definition file is absent
ConfigMissing == ~prompt_file \/ ~theme_file.exists

\* C13: when the prompt template or the bucket-definition file is absent,
\* every step main takes ends the run and leaves the bucket directories, the
\* artifacts, the tables and the error log as they are, with no inference
\* call, the connectivity test included, and no call of process_folder.
C13_ConfigMissingAborts ==
    [][ConfigMissing =>
          /\ pc' = "aborted"
          /\ UNCHANGED <<pdf_dir, json_files, folder_csv, all_csv, error_log>>
          /\ UNCHANGED <<trace, folders, pf>>]_vars

\* a run that ended with the prompt template missing, while the theme file
\* names a bucket that has no directory and a document is pending
C13_Witness ==
    /\ pc = "aborted"
    /\ ~prompt_file
    /\ theme_file = ThemeFile(ThemeAB)
    /\ pdf_dir_exists
    /\ FolderB \notin DOMAIN pdf_dir
    /\ FolderA \in DOMAIN pdf_dir /\ pdf_dir[FolderA] = {Pdf1Lower}
    /\ json_files = << >>

-----------------------------------------------------------------------------
(* C12: the bucket declarations of the theme file *)

\* the bucket one line declares as documented: its trimmed form begins with
\* a single marker followed by a space and the trimmed remainder is not
\* empty; << >> when the line declares none
DeclaredBucket(raw) ==
    LET line == Strip(raw)
    IN  IF Len(line) >= 2 /\ line[1] = "#" /\ line[2] = " "
        THEN Strip(SubSeq(line, 3, Len(line)))
        ELSE << >>

RECURSIVE DeclaredBuckets(_)
DeclaredBuckets(lines) ==
    IF lines = << >> THEN << >>
    ELSE (IF DeclaredBucket(Head(lines)) # << >> THEN <<DeclaredBucket(Head(lines))>>
          ELSE << >>) \o DeclaredBuckets(Tail(lines))

\* C12: parse_theme_buckets returns, in file order, one bucket name for each
\* line whose trimmed form begins with a heading marker of exactly one level
\* (one marker character followed by a space) and has a non-empty trimmed
\* remainder, the name being that remainder; lines beginning with two or
\* more marker characters and all other lines contribute no bucket.
C12_OneLevelHeadings ==
    pc = "parsed" => themes = DeclaredBuckets(Split(theme_file.content, "\n"))

-----------------------------------------------------------------------------
(* C15: the tiers of score_to_level *)

\* the score in hundredths, from the literal
Hundredths(d) == d.s * d.n * (IF d.p = 0 THEN 100 ELSE IF d.p = 1 THEN 10 ELSE 1)

\* the tier the documented thresholds give, highest first
TierOf(h) ==
    IF h >= 900 THEN 5 ELSE IF h >= 750 THEN 4 ELSE IF h >= 600 THEN 3
    ELSE IF h >= 400 THEN 2 ELSE 1

\* C15: score_to_level maps every score to one of five tiers by inclusive
\* lower bounds taken highest first: at least 9.0 tier 5, else at least 7.5
\* tier 4, else at least 6.0 tier 3, else at least 4.0 tier 2, else (scores
\* below 0 included) tier 1; the tier therefore never decreases as the
\* score increases.
C15_TiersByThreshold ==
    pc = "returned" =>
        /\ level = Stars(TierOf(Hundredths(score)))
        /\ \A lower \in LevelScores :
              Hundredths(lower) <= Hundredths(score) =>
                  Len(score_to_level(FloatOfDecimal(lower))) <= Len(level)

\* the call returned tier 4 for the score 7.5, the lowest of its tier
C15_Witness ==
    /\ pc = "returned"
    /\ score = Decimal(1, 750, 2)
    /\ level = Stars(4)

-----------------------------------------------------------------------------
(* C14: the weighted sum of calculate_scenario_score *)

\* a literal of at most three decimal places, in thousandths
Thousandths(d) ==
    d.s * d.n * (IF d.p = 0 THEN 1000 ELSE IF d.p = 1 THEN 100
                 ELSE IF d.p = 2 THEN 10 ELSE 1)

\* the exact weighted sum of the literals, in millionths, with the weights
\* as they are
ExactSum(p, w) ==
    Thousandths(p.rigor) * Thousandths(w.rigor)
        + Thousandths(p.innovation) * Thousandths(w.innovation)
        + Thousandths(p.practicality) * Thousandths(w.practicality)
        + Thousandths(p.impact) * Thousandths(w.impact)
        + Thousandths(p.readability) * Thousandths(w.readability)

\* the numbers of tenths next to the exact sum
TenthsAround(p, w) ==
    LET below == ExactSum(p, w) \div 100000
    IN  {below, below + 1}

\* t tenths is the exact sum rounded to one decimal place (at a tie either
\* neighbour)
IsRounded(t, p, w) ==
    /\ 2 * (t * 100000 - ExactSum(p, w)) <= 100000
    /\ 2 * (ExactSum(p, w) - t * 100000) <= 100000

\* C14: for every record and weight vector calculate_scenario_score returns
\* overall = rigor*w_rigor + innovation*w_innovation + practicality*
\* w_practicality + impact*w_impact + readability*w_readability rounded to
\* one decimal place, with the weights as configured (not renormalised when
\* they do not add up to 1), and level = score_to_level(overall); for the
\* weights 0.3, 0.25, 0.25, 0.15, 0.05 and the dimensions 8, 9, 7, 6, 5 the
\* result is 7.6 with the fourth tier.
C14_WeightedSumRounded ==
    pc = "returned" =>
        /\ \E t \in TenthsAround(paper, weights) :
              /\ IsRounded(t, paper, weights)
              /\ scenario_score.overall_score = FloatOfDecimal(Decimal(1, t, 1))
              /\ scenario_score.level = Stars(TierOf(10 * t))
        /\ (paper = ExamplePaper /\ weights = ExampleWeights) =>
              /\ scenario_score.overall_score = FloatOfDecimal(Decimal(1, 76, 1))
              /\ scenario_score.level = Stars(4)

\* the documented example was computed, giving 7.6 and four stars
C14_Witness ==
    /\ pc = "returned"
    /\ paper = ExamplePaper
    /\ weights = ExampleWeights
    /\ scenario_score.overall_score = FloatOfDecimal(Decimal(1, 76, 1))

-----------------------------------------------------------------------------
(* C16 *)

\* create_scenario_ranking_tables has returned or raised
Ranked == pc \in {"rs_done", "rs_crashed"}

\* where the record of a ranked row stood among the loaded records
InputPosition(row) == CHOOSE i \in DOMAIN papers : papers[i].original_row = row

\* a table that ranks the loaded records under the weights
IsRankingOfPapers(t, w) ==
    /\ t.exists /\ t.header
    /\ Len(t.rows) = Len(papers)
    /\ \A i \in DOMAIN papers :
          Cardinality({r \in DOMAIN t.rows : t.rows[r].row = papers[i].original_row}) = 1
    /\ \A r \in DOMAIN t.rows :
          t.rows[r].overall
              = calculate_scenario_score(papers[InputPosition(t.rows[r].row)],
                                         Floats(w)).overall_score
    /\ \A r \in 1..(Len(t.rows) - 1) : FloatGeq(t.rows[r].overall, t.rows[r + 1].overall)
    /\ \A r1, r2 \in DOMAIN t.rows :
          r1 < r2 /\ t.rows[r1].overall = t.rows[r2].overall
              => InputPosition(t.rows[r1].row) < InputPosition(t.rows[r2].row)
    /\ \A r \in DOMAIN t.rows :
          t.rows[r].top = (IF r <= 10 THEN <<"TOP", r>> ELSE << >>)

\* C16: for every scenario the ranking table holds each loaded record
\* exactly once, by non-increasing scenario overall score, records of equal
\* score in their input order, and exactly the ranks 1..min(10, n) carry
\* the top mark
C16_RankingTables ==
    Ranked =>
        \A k \in DOMAIN config.scenarios :
            /\ config.scenarios[k].name \in DOMAIN rankings
            /\ IsRankingOfPapers(rankings[config.scenarios[k].name],
                                  config.scenarios[k].weights)

-----------------------------------------------------------------------------
(* C17 *)

DimensionCells(row) ==
    {row.rigor, row.innovation, row.practicality, row.impact, row.readability}

\* the row is in no ranking table and not in the comparison table, and one
\* warning names it
DroppedWithOneWarning(row) ==
    /\ \A i \in DOMAIN comparison.rows : comparison.rows[i].index # Strip(row.index)
    /\ \A n \in DOMAIN rankings :
          \A r \in DOMAIN rankings[n].rows : rankings[n].rows[r].row # row
    /\ Cardinality({i \in DOMAIN warnings : warnings[i] = row.index}) = 1

\* the row is once in the comparison table and once in every ranking
\* table, and no warning names it
ScoredOnce(row) ==
    /\ Cardinality({i \in DOMAIN comparison.rows :
                        comparison.rows[i].index = Strip(row.index)}) = 1
    /\ \A k \in DOMAIN config.scenarios :
          /\ config.scenarios[k].name \in DOMAIN rankings
          /\ Cardinality({r \in DOMAIN rankings[config.scenarios[k].name].rows :
                rankings[config.scenarios[k].name].rows[r].row = row}) = 1
    /\ \A i \in DOMAIN warnings : warnings[i] # row.index

\* C17: a row with a dimension cell that cannot be parsed as a number, the
\* empty cell included, is dropped from the comparison table and from every
\* ranking table with exactly one warning and is never scored with a zero
\* in its place; the remaining rows (those whose six score cells are
\* numbers) are scored
C17_UnparsableDimensionDropped ==
    Ranked =>
        \A i \in DOMAIN p0_csv.rows :
            IF \E cell \in DimensionCells(p0_csv.rows[i]) : ~PyFloat(cell).ok
            THEN DroppedWithOneWarning(p0_csv.rows[i])
            ELSE PyFloat(p0_csv.rows[i].overall).ok => ScoredOnce(p0_csv.rows[i])

-----------------------------------------------------------------------------
(* C19 *)

\* the name starts with digits that an underscore or a hyphen follows
HasNumericPrefix(name) == extract_number_from_filename(name) # << >>

PrefixValue(name) == DecimalValue(extract_number_from_filename(name))

\* a call took the folder from before to after as the claim says: files
\* with a numeric prefix stay; the documents without one, in an ascending
\* order of modification time, take the numbers after the largest prefix
\* among the documents; the new prefixes differ from each other
Renumbered(before, after) ==
    LET numbered == {f \in GlobPdf(before) : HasNumericPrefix(f)}
        unnumbered == GlobPdf(before) \ numbered
        largest == MaxOf({PrefixValue(f) : f \in numbered})
        added == DOMAIN after \ DOMAIN before
    IN  /\ \A f \in DOMAIN before :
              HasNumericPrefix(f) => f \in DOMAIN after /\ after[f] = before[f]
        /\ \E order \in OrdersByMtime(before, unnumbered) :
              /\ DOMAIN after
                    = (DOMAIN before \ unnumbered)
                        \cup {NewName(largest + i, order[i]) : i \in DOMAIN order}
              /\ \A i \in DOMAIN order :
                    after[NewName(largest + i, order[i])] = before[order[i]]
        /\ Cardinality({PrefixValue(f) : f \in added}) = Cardinality(added)

\* C19: the first call renames no file that has a numeric prefix, gives
\* the unnumbered documents, by ascending modification time, the prefixes
\* max+1, max+2, ..., pairwise distinct, and leaves the other folder
\* alone; the second call renames nothing
C19_RenumberOnce ==
    [][ /\ pc = "rename_1" =>
              /\ Renumbered(inbox[InboxFolder], inbox'[InboxFolder])
              /\ inbox'[OtherFolder] = inbox[OtherFolder]
        /\ pc = "rename_2" =>
              /\ inbox' = inbox
              /\ rename_counts'[2] = 0 ]_vars

-----------------------------------------------------------------------------
(* C20 *)

\* the table is still there with the rows it had, in their places
KeepsRows(before, after) ==
    /\ before.exists => after.exists
    /\ Len(before.rows) <= Len(after.rows)
    /\ SubSeq(after.rows, 1, Len(before.rows)) = before.rows

\* C20: no step removes or changes a row of the combined table, whether
\* this run or an earlier one wrote it; a per-folder table loses rows only
\* in the entry step of process_folder for that folder with overwrite set
C20_TablesAppendOnly ==
    [][ /\ KeepsRows(all_csv, all_csv')
        /\ \A f \in DOMAIN folder_csv :
              ~KeepsRows(folder_csv[f], folder_csv'[f])
                  => pc = "pf_enter" /\ pf.folder.name = f /\ pf.overwrite ]_vars

\* an overwrite run appended a row after the rows of the earlier run in the
\* combined table, while the table of the folder holds rows of this run only
C20_Witness ==
    /\ pc \in PfPcs
    /\ pf.overwrite
    /\ \E i, j \in DOMAIN all_csv.rows :
          /\ i < j
          /\ all_csv.rows[i].run = 0 /\ all_csv.rows[i].source_folder = pf.folder.name
          /\ all_csv.rows[j].run = run /\ all_csv.rows[j].source_folder = pf.folder.name
    /\ folder_csv[pf.folder.name].rows # << >>
    /\ \A k \in DOMAIN folder_csv[pf.folder.name].rows :
          folder_csv[pf.folder.name].rows[k].run = run

-----------------------------------------------------------------------------
(* C21 *)

\* the places of the trace where the throttle pause was taken
Pauses == {i \in DOMAIN trace : trace[i].e = "sleep"}

\* the pauses taken after the document
PausesAfter(file) == {i \in Pauses : trace[i].file = file}

\* C21: a process_folder call with m documents to process, once it has
\* ended, has taken a pause exactly once after each of the first m - 1 of
\* them, whether the document succeeded or failed, none after the last one
\* and none for a skipped document: max(0, m - 1) pauses, each straight
\* after the processing of one document ended and straight before the next
\* document starts
C21_PauseBetweenDocuments ==
    pc \in {"pf_ret", "crashed"} =>
        LET m == Len(pf.to_process)
        IN  /\ \A k \in 1..m :
                  Cardinality(PausesAfter(pf.to_process[k])) = IF k < m THEN 1 ELSE 0
            /\ \A i \in Pauses :
                  \E k \in 1..(m - 1) :
                      /\ trace[i].file = pf.to_process[k]
                      /\ i > 1
                      /\ trace[i - 1].e \in {"ok", "log"}
                      /\ trace[i - 1].file = pf.to_process[k]
                      /\ i < Len(trace)
                      /\ trace[i + 1].e = "doc"
                      /\ trace[i + 1].file = pf.to_process[k + 1]
            /\ Cardinality(Pauses) = IF m = 0 THEN 0 ELSE m - 1

-----------------------------------------------------------------------------
(* C22 *)

\* the places of the selection whose folder main has given to process_folder
ProcessedPlaces ==
    {q \in 1..(loop.pos - 1) :
        overwrite \/ folders[selected_indices[q] + 1].pending > 0}

\* the number of documents of the folders at the places
RECURSIVE DocumentsAt(_)
DocumentsAt(places) ==
    IF places = {} THEN 0
    ELSE LET q == CHOOSE x \in places : TRUE
         IN  Len(folders[selected_indices[q] + 1].pdf_files) + DocumentsAt(places \ {q})

EventsOf(kind) == Cardinality({i \in DOMAIN trace : trace[i].e = kind})

\* C22: a process_folder call that returns has success + skip + fail equal
\* to the number of documents of the folder and returns the start index
\* plus success; the totals of main are the sums over the processed
\* folders: the successes and failures that happened, and with the skips as
\* many as the documents of those folders
C22_StatsAddUp ==
    /\ pc = "pf_ret" =>
          /\ pf.stats.success + pf.stats.skip + pf.stats.fail = Len(pf.folder.pdf_files)
          /\ pf.global_index = pf.global_index_start + pf.stats.success
    /\ (pc \in {"loop", "done"} /\ loop # NoLoop) =>
          /\ loop.total_stats.success = EventsOf("ok")
          /\ loop.total_stats.fail = EventsOf("fail")
          /\ loop.total_stats.success + loop.total_stats.skip + loop.total_stats.fail
                = DocumentsAt(ProcessedPlaces)

\* a run over both folders ended with a success, a skip and a failure
C22_Witness ==
    /\ pc = "done"
    /\ Cardinality(ProcessedPlaces) = 2
    /\ loop.total_stats = [success |-> 1, skip |-> 1, fail |-> 1]

-----------------------------------------------------------------------------
(* C23 *)

\* C23: when a run is over, as before it started on what earlier runs
\* left, the rows of the combined table have pairwise distinct index
\* values and no document has two rows
C23_CombinedRowsDistinct ==
    pc \in {"scan", "done"} =>
        \A i, j \in DOMAIN all_csv.rows :
            i # j =>
                /\ all_csv.rows[i].index # all_csv.rows[j].index
                /\ <<all_csv.rows[i].source_folder, all_csv.rows[i].file>>
                      # <<all_csv.rows[j].source_folder, all_csv.rows[j].file>>

-----------------------------------------------------------------------------
(* C24 *)

\* C24: when process_folder has returned, every document of the folder
\* whose artifact exists has a row in the table of the folder
C24_ArtifactHasRow ==
    pc = "pf_ret" =>
        \A k \in DOMAIN pf.folder.pdf_files :
            get_json_path_for_pdf(pf.folder.pdf_files[k], pf.folder.name) \in DOMAIN json_files
                => \E r \in DOMAIN folder_csv[pf.folder.name].rows :
                      folder_csv[pf.folder.name].rows[r].file = pf.folder.pdf_files[k]

-----------------------------------------------------------------------------
(* C25 *)

\* C25: between any two inference calls of a run a throttle pause was
\* taken, also when the two calls are for documents of different folders
C25_PauseBetweenCalls ==
    \A i, j \in DOMAIN trace :
        (i < j /\ trace[i].e = "llm" /\ trace[j].e = "llm")
            => \E k \in (i + 1)..(j - 1) : trace[k].e = "sleep"

-----------------------------------------------------------------------------
(* C26 *)

\* C26 as stated: a row whose five dimension cells are numbers is once in
\* the comparison table and once in every ranking table, whatever its
\* baseline overall score, level, title and index hold
C26_NumericDimensionsKept ==
    Ranked =>
        \A i \in DOMAIN p0_csv.rows :
            (\A cell \in DimensionCells(p0_csv.rows[i]) : PyFloat(cell).ok)
                => ScoredOnce(p0_csv.rows[i])

\* C26: a row whose five dimension cells and baseline overall score are
\* all numbers is never dropped: it is once in the comparison table and
\* once in every ranking table, whatever its level, title and index hold
C26_NumericScoresKept ==
    Ranked =>
        \A i \in DOMAIN p0_csv.rows :
            (\A cell \in DimensionCells(p0_csv.rows[i]) \cup {p0_csv.rows[i].overall} :
                    PyFloat(cell).ok)
                => ScoredOnce(p0_csv.rows[i])

\* a table whose first row has a baseline overall score that is no number
\* and whose second row has six numbers: the second is in both tables of
\* two scenarios, the first is skipped
C26_Witness ==
    /\ pc = "rs_done"
    /\ Len(config.scenarios) = 2
    /\ Len(p0_csv.rows) = 2
    /\ \A cell \in DimensionCells(p0_csv.rows[1]) : PyFloat(cell).ok
    /\ p0_csv.rows[1].overall = <<"x">>
    /\ \A cell \in DimensionCells(p0_csv.rows[2]) \cup {p0_csv.rows[2].overall} :
          PyFloat(cell).ok
    /\ ScoredOnce(p0_csv.rows[2])
    /\ ~ScoredOnce(p0_csv.rows[1])

-----------------------------------------------------------------------------
(* C27 *)

\* the comparison table and a ranking table with a header and no rows
HeaderOnly(t) == t.exists /\ t.header /\ t.rows = << >>

\* C27: when no row of the combined table loads and a scenario is
\* configured, the run ends without an error, the comparison table is
\* header-only and every scenario has a header-only ranking table
C27_NoRecordsHeaderOnlyTables ==
    (Ranked /\ papers = << >> /\ config.scenarios # << >>)
        => /\ pc = "rs_done"
           /\ HeaderOnly(comparison)
           /\ \A k \in DOMAIN config.scenarios :
                 /\ config.scenarios[k].name \in DOMAIN rankings
                 /\ HeaderOnly(rankings[config.scenarios[k].name])


====
